---- MODULE Spec2Model ----
(***************************************************************************)
(* A model of the styling-and-layout core of neosurf (wisp): the libcss    *)
(* property parsers and cascade functions, the replaced-box dimension flag *)
(* and reflow decision, the stacking-context sorter and the flex sizing    *)
(* helpers.  Each subsystem has its own variables and its own              *)
(* specification; a specification leaves the other subsystems' variables   *)
(* at their initial values.                                                *)
(***************************************************************************)
EXTENDS Integers, Sequences, FiniteSets, TLC

VARIABLES
    \* ---- flex sizing (layout_flex width clamping) ----
    width,              \* the item's width; AUTO while unresolved
    max_width,          \* max-width in px, negative when undefined
    min_width,          \* min-width in px, 0 when undefined
    calculated_width,   \* the width the distribution step computed
    flex_pc,            \* "start" | "clamped" (an AUTO width was resolved) | "kept"
    \* ---- flex item base size, line resolution, height preservation ----
    is_horizontal,      \* 1: row container (main axis horizontal), 0: column container
    css_flex_basis_auto,\* 1: flex-basis is auto
    basis_px,           \* an explicit flex-basis, in px
    pre_layout_height,  \* the item's main size before its own layout pass
    post_layout_height, \* the item's content height after its own layout pass
    height_definite,    \* 1: the container's height is definite
    available_main,     \* the container's main size; AUTO when indefinite
    line_items,         \* the base sizes of the items of the line
    base_size,          \* the item's base size; AUTO while deferred
    item_result,        \* what the step taken returned
    item_pc,            \* "start" | "based" | "laid_out" | "basis" | "preserve" | "line"
    \* ---- grid layout ----
    grid_tracks,        \* grid-template-columns: the tracks, each [value, unit]
    grid_width,         \* the width of the grid container
    column_gap,         \* column-gap, in px
    children,           \* the grid's children in document order: [x, y, width, height]
    col_widths,         \* the resolved column widths
    grid_ok,            \* what layout_grid returned
    grid_pc,            \* "start" | "done"
    \* ---- Windows text caches (font handles, wide strings, split points) ----
    fonts,              \* the caches, their generation counters and wstr_total_bytes
    font_last,          \* history: the last call, its arguments and what it returned
    font_calls,         \* calls made so far
    \* ---- web font downloads ----
    font_downloads,     \* the download slots
    loaded_fonts,       \* the list of loaded families, newest first
    face_done,          \* history: the families whose data was loaded with NSERROR_OK
    face_last,          \* history: the last availability query, its answer, and
                        \* whether the family had been loaded when it was asked
    face_flight,        \* history: the slots whose fetch was accepted by
                        \* llcache_handle_retrieve and has not delivered DONE or ERROR
    face_fetch,         \* history: the last fetch_font_url call
    face_steps,         \* steps taken so far
    \* ---- stacking context ----
    entries,            \* struct stacking_context.entries[0..count)
    next_box,           \* the next box to be added (boxes are added in document order)
    sorted,             \* TRUE when stacking_context_sort was the last call
    sorts,              \* stacking_context_sort calls since the last add
    \* ---- replaced box and reflow coordinator ----
    author,             \* author rule for the element: [w, h], each "none" | "px" | "pct" | "auto"
    hint,               \* width/height attributes: [w, h], each "none" | "px" | "pct"
    box,                \* the replaced box: [flags, x, y, width, height]
    box_pc,             \* "styled" (no box yet) | "built"
    fetch,              \* "none" | "pending" | "done" | "error"
    resolved,           \* the box's size was settled by a resource completion
    events,             \* resource events delivered so far
    rebuilds,           \* full box-tree rebuilds triggered so far
    relayouts,          \* scoped re-layout passes triggered so far
    touched,            \* the boxes the re-layout passes visited
    built,              \* history: the box as box_image left it
    settled,            \* history: the box as the first completion left it
    \* ---- cascade (select/properties) ----
    style,              \* css_style: the bytecode words from the read cursor on
    computed,           \* state->computed, the properties modelled
    props,              \* state->props: the rank of the value each property holds (0: unset)
    cas_err,            \* the css_error the last cascade call returned
    cas_last,           \* history of the last cascade call
    cas_steps,          \* cascade calls made so far
    rows_build,         \* which css__cascade_grid_template_rows is built: "tracks" | "todo"
    \* ---- compose / copy of list-valued properties ----
    styles,             \* the computed styles: per property a type and a pointer to its list
    heap,               \* pointer -> the list allocated there
    live,               \* the pointers allocated and not freed
    destroyed,          \* the styles destroyed
    freed_twice,        \* a pointer was freed that was not live
    cmp_err,            \* the css_error the last compose / copy returned
    cmp_ops,            \* compose / copy / destroy calls made so far
    \* ---- property parsers ----
    prop_name,          \* the property whose handler is run
    tokens,             \* vector: the tokens of the declaration's value
    entry_ctx,          \* *ctx on entry
    cursor,             \* *ctx
    emitted,            \* result: the words of the style the handler appends to
    mem,                \* the appends the allocator grants (-1: all)
    parse_err,          \* the css_error the handler returned
    parse_pc            \* "ready" | "done"

flexVars  == <<width, max_width, min_width, calculated_width, flex_pc>>
itemVars  == <<is_horizontal, css_flex_basis_auto, basis_px, pre_layout_height,
               post_layout_height, height_definite, available_main, line_items,
               base_size, item_result, item_pc>>
gridVars  == <<grid_tracks, grid_width, column_gap, children, col_widths, grid_ok, grid_pc>>
fontVars  == <<fonts, font_last, font_calls>>
faceVars  == <<font_downloads, loaded_fonts, face_done, face_last, face_flight,
              face_fetch, face_steps>>
stackVars == <<entries, next_box, sorted, sorts>>
boxVars   == <<author, hint, box, box_pc, fetch, resolved, events, rebuilds,
               relayouts, touched, built, settled>>
casVars   == <<style, computed, props, cas_err, cas_last, cas_steps, rows_build>>
cmpVars   == <<styles, heap, live, destroyed, freed_twice, cmp_err, cmp_ops>>
parseVars == <<prop_name, tokens, entry_ctx, cursor, emitted, mem, parse_err, parse_pc>>
vars      == <<flexVars, itemVars, gridVars, fontVars, faceVars, stackVars, boxVars,
              casVars, cmpVars, parseVars>>

(***************************************************************************)
(* Bounds of the model.                                                    *)
(***************************************************************************)
MaxSize    == 4     \* pixel sizes range over 0..MaxSize
MaxEntries == 4     \* stacking entries added to one context
MaxZ       == 1     \* z-index ranges over -MaxZ..MaxZ
MaxSorts   == 2     \* stacking_context_sort calls in a row
MaxEvents  == 3     \* resource events delivered to one box
MaxSteps   == 2     \* declarations cascaded into one computed style
MaxOps     == 2     \* compose, copy and destroy calls on the styles of one element
MaxLen     == 3     \* pieces a token vector is put together from
MaxCols    == 3     \* tracks of a grid-template-columns list
MaxKids    == 4     \* children of one grid container
MaxCalls   == 3     \* calls into the Windows text measurement layer
MaxFaceSteps == 4   \* fetches, fetch events and availability queries
\* The number of download slots, scaled down (the source has 32).
MAX_FONT_DOWNLOADS == 2
\* The limits of the Windows text caches, scaled down (the source has 16384
\* entries, 256 entries and 16 MiB).
SPLIT_CACHE_MAX_ENTRIES == 2
FONT_CACHE_MAX_ENTRIES  == 2
WSTR_CACHE_MAX_BYTES    == 4

(***************************************************************************)
(* Flex sizing.                                                            *)
(***************************************************************************)
\* INT_MIN, the AUTO / UNKNOWN_WIDTH sentinel
AUTO == (-2147483647) - 1

\* The same with the two clamps in the other order (min-width first).
test_flex_width_clamping_min_first(w, maxw, minw, calc) ==
    IF w = AUTO
    THEN LET w1 == calc
             w2 == IF minw > 0 /\ w1 < minw THEN minw ELSE w1
             w3 == IF maxw >= 0 /\ w2 > maxw THEN maxw ELSE w2
         IN  w3
    ELSE w

\* layout_flex width clamping: an AUTO width takes the calculated width,
\* clamped by max-width first and by min-width second.
test_flex_width_clamping(w, maxw, minw, calc) ==
    IF w = AUTO
    THEN LET w1 == calc
             w2 == IF maxw >= 0 /\ w1 > maxw THEN maxw ELSE w1
             w3 == IF minw > 0 /\ w2 < minw THEN minw ELSE w2
         IN  w3
    ELSE w

FlexInit ==
    /\ width \in {AUTO} \cup (0..MaxSize)
    /\ max_width \in -1..MaxSize
    /\ min_width \in 0..MaxSize
    /\ calculated_width \in 0..MaxSize
    /\ flex_pc = "start"

FlexIdle ==
    /\ width = AUTO
    /\ max_width = -1
    /\ min_width = 0
    /\ calculated_width = 0
    /\ flex_pc = "start"

FlexClamp ==
    /\ flex_pc = "start"
    /\ width' = test_flex_width_clamping(width, max_width, min_width, calculated_width)
    /\ flex_pc' = IF width = AUTO THEN "clamped" ELSE "kept"
    /\ UNCHANGED <<max_width, min_width, calculated_width>>

(***************************************************************************)
(* Flex item base size, line resolution and height preservation.           *)
(***************************************************************************)
\* The heights of the column scenario: 22 before the item's layout, 139 after.
PRE_LAYOUT  == 22
POST_LAYOUT == 139
INT_MAX == 2147483647

\* The base size taken from the pre-layout size whatever the direction.
base_size_before_layout_eager(basis_auto, horizontal, pre_layout) ==
    IF basis_auto # 0 THEN pre_layout ELSE AUTO

\* test_column_flex_base_size_logic up to the item's layout pass: with
\* flex-basis auto a row container takes the pre-layout size, a column
\* container defers (AUTO); any other basis leaves AUTO here.
base_size_before_layout(basis_auto, horizontal, pre_layout) ==
    IF basis_auto # 0
    THEN IF horizontal # 0 THEN pre_layout ELSE AUTO
    ELSE AUTO

\* test_column_flex_base_size_logic after layout_flex_item(): a column
\* item whose base size was deferred takes its post-layout height.
base_size_after_layout(base, horizontal, post_layout) ==
    IF horizontal = 0 /\ base = AUTO THEN post_layout ELSE base

\* Deferral of a zero basis whatever the direction.
test_flex_basis_zero_any_direction(horizontal, px) == px = 0

\* test_flex_basis_zero_column_logic: TRUE when the base size is deferred
\* to content sizing.
test_flex_basis_zero_column_logic(horizontal, px) ==
    IF horizontal = 0 /\ px = 0 THEN TRUE ELSE FALSE

\* Preservation of any definite height.
test_should_preserve_height_any_direction(horizontal, definite) == definite # 0

\* test_should_preserve_height_logic
test_should_preserve_height_logic(horizontal, definite) ==
    definite # 0 /\ horizontal # 0

\* test_resolve_line_logic_old: the unbounded sentinel for an AUTO main size.
test_resolve_line_logic_old(avail, main_size) ==
    IF avail = AUTO THEN INT_MAX ELSE avail

\* test_resolve_line_logic
test_resolve_line_logic(avail, main_size) ==
    IF avail = AUTO THEN main_size ELSE avail

\* The main size of a line: the sum of its items' base sizes.
RECURSIVE line_main_size(_)
line_main_size(items) ==
    IF Len(items) = 0 THEN 0 ELSE Head(items) + line_main_size(Tail(items))

ItemHeights == (0..1) \cup {PRE_LAYOUT, POST_LAYOUT}
LineItems == UNION {[1..n -> 0..MaxSize] : n \in 0..2}

ItemIdle ==
    /\ is_horizontal = 0
    /\ css_flex_basis_auto = 0
    /\ basis_px = 0
    /\ pre_layout_height = 0
    /\ post_layout_height = 0
    /\ height_definite = 0
    /\ available_main = AUTO
    /\ line_items = <<>>
    /\ base_size = AUTO
    /\ item_result = 0
    /\ item_pc = "start"

\* Either the inputs of an item vary, or those of a line.
ItemInit ==
    /\ is_horizontal \in 0..1
    /\ base_size = AUTO
    /\ item_result = 0
    /\ item_pc = "start"
    /\ \/ /\ css_flex_basis_auto \in 0..1
          /\ basis_px \in 0..MaxSize
          /\ pre_layout_height \in ItemHeights
          /\ post_layout_height \in ItemHeights
          /\ height_definite \in 0..1
          /\ available_main = AUTO
          /\ line_items = <<>>
       \/ /\ css_flex_basis_auto = 0
          /\ basis_px = 0
          /\ pre_layout_height = 0
          /\ post_layout_height = 0
          /\ height_definite = 0
          /\ available_main \in {AUTO} \cup (0..MaxSize)
          /\ line_items \in LineItems

\* The base size as set before the item's own layout pass.
FlexBaseSize ==
    /\ item_pc = "start"
    /\ base_size' = base_size_before_layout(css_flex_basis_auto, is_horizontal,
                                            pre_layout_height)
    /\ item_pc' = "based"
    /\ UNCHANGED <<is_horizontal, css_flex_basis_auto, basis_px, pre_layout_height,
                   post_layout_height, height_definite, available_main, line_items,
                   item_result>>

\* layout_flex_item(): the item's layout pass, then the deferred base size.
FlexItemLayout ==
    /\ item_pc = "based"
    /\ base_size' = base_size_after_layout(base_size, is_horizontal, post_layout_height)
    /\ item_pc' = "laid_out"
    /\ UNCHANGED <<is_horizontal, css_flex_basis_auto, basis_px, pre_layout_height,
                   post_layout_height, height_definite, available_main, line_items,
                   item_result>>

ItemReturns(pc, value) ==
    /\ item_pc = "start"
    /\ item_result' = value
    /\ item_pc' = pc
    /\ UNCHANGED <<is_horizontal, css_flex_basis_auto, basis_px, pre_layout_height,
                   post_layout_height, height_definite, available_main, line_items,
                   base_size>>

FlexBasisZero ==
    ItemReturns("basis",
                IF test_flex_basis_zero_column_logic(is_horizontal, basis_px) THEN 1 ELSE 0)

FlexPreserveHeight ==
    ItemReturns("preserve",
                IF test_should_preserve_height_logic(is_horizontal, height_definite)
                THEN 1 ELSE 0)

\* layout_flex__resolve_line: the available main size of the line.
FlexResolveLine ==
    ItemReturns("line",
                test_resolve_line_logic(available_main, line_main_size(line_items)))

(***************************************************************************)
(* Stacking context.                                                       *)
(***************************************************************************)
\* The same step, but e goes before the entries with its own z_index.
RECURSIVE stacking_insert_before_equal(_, _)
stacking_insert_before_equal(s, e) ==
    IF s = <<>> THEN <<e>>
    ELSE IF s[Len(s)].z_index < e.z_index
         THEN Append(s, e)
         ELSE Append(stacking_insert_before_equal(SubSeq(s, 1, Len(s) - 1), e), s[Len(s)])

\* One step of the stable sort: e goes after every entry whose z_index is
\* not greater than its own.
RECURSIVE stacking_insert(_, _)
stacking_insert(s, e) ==
    IF s = <<>> THEN <<e>>
    ELSE IF s[Len(s)].z_index <= e.z_index
         THEN Append(s, e)
         ELSE Append(stacking_insert(SubSeq(s, 1, Len(s) - 1), e), s[Len(s)])

\* A sort that keeps one entry of each z_index only.
RECURSIVE stacking_sorted_unique(_)
stacking_sorted_unique(s) ==
    IF s = <<>> THEN <<>>
    ELSE IF \E i \in 1..(Len(s) - 1) : s[i].z_index = s[Len(s)].z_index
    THEN stacking_sorted_unique(SubSeq(s, 1, Len(s) - 1))
    ELSE stacking_insert(stacking_sorted_unique(SubSeq(s, 1, Len(s) - 1)), s[Len(s)])

RECURSIVE stacking_sorted(_)
stacking_sorted(s) ==
    IF s = <<>> THEN <<>>
    ELSE stacking_insert(stacking_sorted(SubSeq(s, 1, Len(s) - 1)), s[Len(s)])

StackInit ==
    /\ entries = <<>>
    /\ next_box = 1
    /\ sorted = FALSE
    /\ sorts = 0

stacking_context_add(z) ==
    /\ Len(entries) < MaxEntries
    /\ entries' = Append(entries, [box |-> next_box, z_index |-> z,
                                   x_parent |-> 0, y_parent |-> 0])
    /\ next_box' = next_box + 1
    /\ sorted' = FALSE
    /\ sorts' = 0

stacking_context_sort ==
    /\ sorts < MaxSorts
    /\ entries' = stacking_sorted(entries)
    /\ sorted' = TRUE
    /\ sorts' = sorts + 1
    /\ UNCHANGED next_box

StackAdd == \E z \in -MaxZ..MaxZ : stacking_context_add(z)

(***************************************************************************)
(* Replaced boxes: the REPLACE_DIM flag and the reflow coordinator.        *)
(* The box tree is  root(1) -> block(2) -> img(3)  with a sibling block(4) *)
(* under the root; the replaced box is box 3.                              *)
(***************************************************************************)
ImgBox      == 3
ImgAncestry == {3, 2, 1}

\* The attribute and rule values of the scenario: width 200, height 150;
\* a percentage is 50% of the containing block (400 x 300); an image whose
\* size is not given takes its intrinsic size (64 x 48) when it arrives.
AttrWidth       == 200
AttrHeight      == 150
ContainerWidth  == 400
ContainerHeight == 300
IntrinsicWidth  == 64
IntrinsicHeight == 48

\* The cascade for one dimension: an author rule outranks a presentational
\* hint, which outranks the initial value (auto).
computed_dimension(a, h) ==
    IF a # "none" THEN a ELSE IF h # "none" THEN h ELSE "auto"

\* css_computed_width / css_computed_height: the type (SET or AUTO) and unit.
css_computed_type(d) == IF d \in {"px", "pct"} THEN "SET" ELSE "AUTO"
css_computed_unit(d) == IF d = "pct" THEN "PCT" ELSE "PX"

\* The same test with the percentage exclusion dropped.
replace_dim_ignoring_unit(w, h) ==
    css_computed_type(w) = "SET" /\ css_computed_type(h) = "SET"

\* box_image: the REPLACE_DIM test on the computed width and height.
replace_dim(w, h) ==
    /\ css_computed_type(w) = "SET" /\ css_computed_unit(w) # "PCT"
    /\ css_computed_type(h) = "SET" /\ css_computed_unit(h) # "PCT"

\* The size layout gives a dimension before the resource is known.
layout_dimension(d, px, container) ==
    CASE d = "px"  -> px
      [] d = "pct" -> container \div 2
      [] OTHER     -> AUTO

NoBox == [flags |-> FALSE, x |-> 0, y |-> 0, width |-> AUTO, height |-> AUTO]

BoxInit ==
    /\ author \in [w : {"none", "px", "pct", "auto"}, h : {"none", "px", "pct", "auto"}]
    /\ hint \in [w : {"none", "px", "pct"}, h : {"none", "px", "pct"}]
    /\ box = NoBox
    /\ box_pc = "styled"
    /\ fetch = "none"
    /\ resolved = FALSE
    /\ events = 0
    /\ rebuilds = 0
    /\ relayouts = 0
    /\ touched = {}
    /\ built = NoBox
    /\ settled = NoBox

BoxIdle ==
    /\ author = [w |-> "none", h |-> "none"]
    /\ hint = [w |-> "none", h |-> "none"]
    /\ box = NoBox
    /\ box_pc = "styled"
    /\ fetch = "none"
    /\ resolved = FALSE
    /\ events = 0
    /\ rebuilds = 0
    /\ relayouts = 0
    /\ touched = {}
    /\ built = NoBox
    /\ settled = NoBox

\* Box construction for the replaced element: the flag is decided from the
\* computed style, the box gets the size layout can give it, and only then
\* is the fetch started.
box_image ==
    /\ box_pc = "styled"
    /\ LET w == computed_dimension(author.w, hint.w)
           h == computed_dimension(author.h, hint.h)
           b == [flags  |-> replace_dim(w, h),
                 x      |-> 0,
                 y      |-> 0,
                 width  |-> layout_dimension(w, AttrWidth, ContainerWidth),
                 height |-> layout_dimension(h, AttrHeight, ContainerHeight)]
       IN  /\ box' = b
           /\ built' = b
    /\ box_pc' = "built"
    /\ fetch' = "pending"
    /\ UNCHANGED <<author, hint, resolved, events, rebuilds, relayouts, touched, settled>>

\* The box after the first completion of a box whose size was not known:
\* an arrived image fills the dimensions that are still AUTO.
object_settle(b, msg) ==
    IF msg = "DONE"
    THEN [b EXCEPT !.width  = IF @ = AUTO THEN IntrinsicWidth ELSE @,
                   !.height = IF @ = AUTO THEN IntrinsicHeight ELSE @]
    ELSE b

\* A callback that rebuilds the box tree when the fetch of a box with
\* known dimensions fails.
object_callback_rebuild_on_error(msg) ==
    /\ box_pc = "built"
    /\ events < MaxEvents
    /\ events' = events + 1
    /\ fetch' = IF msg = "DONE" THEN "done" ELSE "error"
    /\ IF box.flags /\ msg = "ERROR"
       THEN /\ rebuilds' = rebuilds + 1
            /\ box' = [box EXCEPT !.width = AUTO, !.height = AUTO]
            /\ UNCHANGED <<resolved, relayouts, touched, settled>>
       ELSE IF box.flags \/ resolved
       THEN UNCHANGED <<box, resolved, rebuilds, relayouts, touched, settled>>
       ELSE /\ box' = object_settle(box, msg)
            /\ resolved' = TRUE
            /\ relayouts' = relayouts + 1
            /\ touched' = touched \cup ImgAncestry
            /\ settled' = box'
            /\ UNCHANGED rebuilds
    /\ UNCHANGED <<author, hint, box_pc, built>>

\* A callback that does not remember that the box is already resolved.
object_callback_relayout_again(msg) ==
    /\ box_pc = "built"
    /\ events < MaxEvents
    /\ events' = events + 1
    /\ fetch' = IF msg = "DONE" THEN "done" ELSE "error"
    /\ IF box.flags
       THEN UNCHANGED <<box, resolved, rebuilds, relayouts, touched, settled>>
       ELSE /\ box' = object_settle(box, msg)
            /\ resolved' = TRUE
            /\ relayouts' = relayouts + 1
            /\ touched' = touched \cup ImgAncestry
            /\ settled' = IF resolved THEN settled ELSE box'
            /\ UNCHANGED rebuilds
    /\ UNCHANGED <<author, hint, box_pc, built>>

\* The reflow coordinator's handling of a resource event (DONE or ERROR)
\* for the box.
html_object_callback(msg) ==
    /\ box_pc = "built"
    /\ events < MaxEvents
    /\ events' = events + 1
    /\ fetch' = IF msg = "DONE" THEN "done" ELSE "error"
    /\ IF box.flags \/ resolved
       THEN \* the reserved geometry stands / the box is already resolved
            UNCHANGED <<box, resolved, rebuilds, relayouts, touched, settled>>
       ELSE /\ box' = object_settle(box, msg)
            /\ resolved' = TRUE
            /\ relayouts' = relayouts + 1
            /\ touched' = touched \cup ImgAncestry
            /\ settled' = box'
            /\ UNCHANGED rebuilds
    /\ UNCHANGED <<author, hint, box_pc, built>>

ObjectEvent == \E msg \in {"DONE", "ERROR"} : html_object_callback(msg)

(***************************************************************************)
(* Bytecode: opcode words (OPV), units and values.                         *)
(***************************************************************************)
\* The opcodes of the properties modelled.
CSS_PROP(name) ==
    CASE name = "grid_auto_flow"        -> 130
      [] name = "grid_template_columns" -> 131
      [] name = "grid_template_rows"    -> 132
      [] name = "object_fit"            -> 133
      [] name = "object_position"       -> 134
      [] name = "transform"             -> 135
      [] name = "row_gap"               -> 136
      [] name = "column_gap"            -> 137
      [] name = "grid_row_start"        -> 138
      [] name = "grid_column_start"     -> 139
      [] name = "grid_row_end"          -> 140
      [] name = "grid_column_end"       -> 141
      [] name = "background_image"      -> 142
      [] name = "align_content"         -> 143
      [] name = "justify_content"       -> 144

\* An OPV word: 10 bits of opcode, 8 bits of flags, 14 bits of value.
buildOPV(op, flags, value) == op + 1024 * flags + 262144 * value
getOpcode(opv)    == opv % 1024
getFlags(opv)     == (opv \div 1024) % 256
getValue(opv)     == opv \div 262144
isImportant(opv)  == getFlags(opv) % 2 = 1
getFlagValue(opv) == (getFlags(opv) \div 2) % 8
hasFlagValue(opv) == getFlagValue(opv) # 0

FLAG_IMPORTANT     == 1
\* enum flag_value: the explicit defaulting a declaration carries.
FLAG_VALUE ==
    [NONE |-> 0,
     INHERIT |-> 1,
     INITIAL |-> 2,
     REVERT |-> 3,
     UNSET |-> 4]

\* Bytecode units: a kind in the high bits, the unit in the low bits.
UNIT ==
    [PX |-> 0,
     PCT |-> 256,
     ANGLE |-> 512,
     DEG |-> 512,
     TIME |-> 1024,
     FREQ |-> 2048,
     FR |-> 4096,
     NUMBER |-> 8192]

\* The values an opcode word carries, per property.
GRID_TEMPLATE ==
    [NONE |-> 0,
     SET |-> 1]

GRID_AUTO_FLOW ==
    [ROW |-> 0,
     COLUMN |-> 1,
     ROW_DENSE |-> 2,
     COLUMN_DENSE |-> 3]

OBJECT_FIT ==
    [FILL |-> 0,
     CONTAIN |-> 1,
     COVER |-> 2,
     NONE |-> 3,
     SCALE_DOWN |-> 4]

OBJECT_POSITION ==
    [HORZ_SET |-> 128,
     HORZ_CENTER |-> 16,
     HORZ_RIGHT |-> 32,
     HORZ_LEFT |-> 48,
     VERT_SET |-> 8,
     VERT_CENTER |-> 1,
     VERT_BOTTOM |-> 2,
     VERT_TOP |-> 3]

TRANSFORM ==
    [NONE |-> 0,
     TRANSLATE |-> 1,
     TRANSLATEX |-> 2,
     TRANSLATEY |-> 3,
     SCALE |-> 4,
     SCALEX |-> 5,
     SCALEY |-> 6,
     ROTATE |-> 7]

ROW_GAP ==
    [NORMAL |-> 0,
     SET |-> 1]

COLUMN_GAP ==
    [NORMAL |-> 0,
     SET |-> 1]

BACKGROUND_IMAGE ==
    [NONE |-> 0,
     URI |-> 1]

\* The values of a grid line.
CSS_GRID_LINE ==
    [AUTO |-> 0,
     SET |-> 1]

INTTOFIX(a) == a * 1024

\* unit & kind, for a kind that is a single bit
unit_has(u, kind) == (u \div kind) % 2 = 1

\* css__to_css_unit: the computed-style unit of a bytecode unit.
css__to_css_unit(u) ==
    CASE u = UNIT.PX     -> "CSS_UNIT_PX"
      [] u = UNIT.PCT    -> "CSS_UNIT_PCT"
      [] u = UNIT.DEG    -> "CSS_UNIT_DEG"
      [] u = UNIT.FR     -> "CSS_UNIT_FR"
      [] u = UNIT.NUMBER -> "CSS_UNIT_NUMBER"
      [] OTHER           -> "CSS_UNIT_PX"

(***************************************************************************)
(* Cascade: select/properties.                                             *)
(***************************************************************************)
NULL == <<>>

\* The rank of a declaration: importance outranks every normal rank.
Priorities == {1, 2}
rank_of(prio, important) == IF important THEN prio + 2 ELSE prio

\* css__outranks_existing: whether the declaration outranks the value the
\* property already holds in the selection state.
css__outranks_existing(op, important, st, prio) ==
    rank_of(prio, important) >= st[op]

\* css__outranks_existing on success records the new value's rank.
outranked(op, important, st, prio) ==
    [st EXCEPT ![op] = rank_of(prio, important)]

\* The result of one css__cascade_<property> call.
CascadeResult(err, rest, outranks, comp, st) ==
    [err |-> err, style |-> rest, outranks |-> outranks, computed |-> comp, props |-> st]

drop(bc, n) == SubSeq(bc, n + 1, Len(bc))

\* The n tracks read from the bytecode, with the terminator.
RECURSIVE read_tracks(_, _, _)
read_tracks(bc, n, convert) ==
    IF n = 0 THEN <<[value |-> 0, unit |-> IF convert THEN "CSS_UNIT_PX" ELSE 0]>>
    ELSE <<[value |-> bc[1],
            unit  |-> IF convert THEN css__to_css_unit(bc[2]) ELSE bc[2]]>>
         \o read_tracks(drop(bc, 2), n - 1, convert)

css_grid_template_value(opv) ==
    IF hasFlagValue(opv) THEN "CSS_GRID_TEMPLATE_INHERIT"
    ELSE CASE getValue(opv) = GRID_TEMPLATE.NONE -> "CSS_GRID_TEMPLATE_NONE"
           [] getValue(opv) = GRID_TEMPLATE.SET  -> "CSS_GRID_TEMPLATE_SET"
           [] OTHER -> "CSS_GRID_TEMPLATE_INHERIT"

\* The body shared by css__cascade_grid_template_columns and the track-list
\* css__cascade_grid_template_rows (convert: the unit goes through
\* css__to_css_unit).  install_always is FALSE in the code: the value is set
\* only under css__outranks_existing.
cascade_grid_template(name, convert, install_always, opv, bc, comp, st, prio, malloc_ok) ==
    LET is_set == ~hasFlagValue(opv) /\ getValue(opv) = GRID_TEMPLATE.SET
        n_tracks == IF is_set THEN bc[1] ELSE 0
        bc1    == IF is_set THEN drop(bc, 1) ELSE bc
    IN  IF is_set /\ n_tracks > 0 /\ ~malloc_ok
        THEN CascadeResult("CSS_NOMEM", bc1, "notcalled", comp, st)
        ELSE LET tracks == IF is_set /\ n_tracks > 0
                           THEN read_tracks(bc1, n_tracks, convert) ELSE NULL
                 bc2    == IF is_set /\ n_tracks > 0
                           THEN drop(bc1, 2 * n_tracks) ELSE bc1
                 out    == css__outranks_existing(name, isImportant(opv), st, prio)
             IN  IF out \/ install_always
                 THEN CascadeResult("CSS_OK", bc2, IF out THEN "true" ELSE "false",
                        [comp EXCEPT ![name] =
                            [type |-> css_grid_template_value(opv), tracks |-> tracks]],
                        outranked(name, isImportant(opv), st, prio))
                 ELSE CascadeResult("CSS_OK", bc2, "false", comp, st)

\* A cascade that installs the value whether or not it outranks.
css__cascade_grid_template_columns_unranked(opv, bc, comp, st, prio, malloc_ok) ==
    cascade_grid_template("grid_template_columns", TRUE, TRUE,
                          opv, bc, comp, st, prio, malloc_ok)

css__cascade_grid_template_columns(opv, bc, comp, st, prio, malloc_ok) ==
    cascade_grid_template("grid_template_columns", TRUE, FALSE,
                          opv, bc, comp, st, prio, malloc_ok)

\* The track-list css__cascade_grid_template_rows: the units are stored as read.
css__cascade_grid_template_rows(opv, bc, comp, st, prio, malloc_ok) ==
    cascade_grid_template("grid_template_rows", FALSE, FALSE,
                          opv, bc, comp, st, prio, malloc_ok)

\* The other css__cascade_grid_template_rows: a track list is not read and
\* the value is stored as none.
css__cascade_grid_template_rows_todo(opv, bc, comp, st, prio) ==
    LET value == IF hasFlagValue(opv) THEN "CSS_GRID_TEMPLATE_INHERIT"
                 ELSE CASE getValue(opv) = GRID_TEMPLATE.NONE -> "CSS_GRID_TEMPLATE_NONE"
                        [] getValue(opv) = GRID_TEMPLATE.SET  -> "CSS_GRID_TEMPLATE_NONE"
                        [] OTHER -> "CSS_GRID_TEMPLATE_INHERIT"
    IN  IF css__outranks_existing("grid_template_rows", isImportant(opv), st, prio)
        THEN CascadeResult("CSS_OK", bc, "true",
                [comp EXCEPT !["grid_template_rows"] = [type |-> value, tracks |-> NULL]],
                outranked("grid_template_rows", isImportant(opv), st, prio))
        ELSE CascadeResult("CSS_OK", bc, "false", comp, st)

css__cascade_grid_auto_flow(opv, bc, comp, st, prio) ==
    LET value == IF hasFlagValue(opv) THEN "CSS_GRID_AUTO_FLOW_INHERIT"
                 ELSE CASE getValue(opv) = GRID_AUTO_FLOW.ROW -> "CSS_GRID_AUTO_FLOW_ROW"
                        [] getValue(opv) = GRID_AUTO_FLOW.COLUMN -> "CSS_GRID_AUTO_FLOW_COLUMN"
                        [] getValue(opv) = GRID_AUTO_FLOW.ROW_DENSE -> "CSS_GRID_AUTO_FLOW_ROW_DENSE"
                        [] getValue(opv) = GRID_AUTO_FLOW.COLUMN_DENSE -> "CSS_GRID_AUTO_FLOW_COLUMN_DENSE"
                        [] OTHER -> "CSS_GRID_AUTO_FLOW_INHERIT"
    IN  IF css__outranks_existing("grid_auto_flow", isImportant(opv), st, prio)
        THEN CascadeResult("CSS_OK", bc, "true",
                [comp EXCEPT !["grid_auto_flow"] = value],
                outranked("grid_auto_flow", isImportant(opv), st, prio))
        ELSE CascadeResult("CSS_OK", bc, "false", comp, st)

css__cascade_object_fit(opv, bc, comp, st, prio) ==
    LET value == IF hasFlagValue(opv) THEN "CSS_OBJECT_FIT_INHERIT"
                 ELSE CASE getValue(opv) = OBJECT_FIT.FILL -> "CSS_OBJECT_FIT_FILL"
                        [] getValue(opv) = OBJECT_FIT.CONTAIN -> "CSS_OBJECT_FIT_CONTAIN"
                        [] getValue(opv) = OBJECT_FIT.COVER -> "CSS_OBJECT_FIT_COVER"
                        [] getValue(opv) = OBJECT_FIT.NONE -> "CSS_OBJECT_FIT_NONE"
                        [] getValue(opv) = OBJECT_FIT.SCALE_DOWN -> "CSS_OBJECT_FIT_SCALE_DOWN"
                        [] OTHER -> "CSS_OBJECT_FIT_INHERIT"
    IN  IF css__outranks_existing("object_fit", isImportant(opv), st, prio)
        THEN CascadeResult("CSS_OK", bc, "true",
                [comp EXCEPT !["object_fit"] = value],
                outranked("object_fit", isImportant(opv), st, prio))
        ELSE CascadeResult("CSS_OK", bc, "false", comp, st)

css__cascade_object_position(opv, bc, comp, st, prio) ==
    LET flag  == hasFlagValue(opv)
        horz  == ((getValue(opv) \div 16) % 16) * 16
        vert  == getValue(opv) % 16
        hset  == ~flag /\ horz = OBJECT_POSITION.HORZ_SET
        h     == IF flag THEN <<0, UNIT.PX>>
                 ELSE CASE horz = OBJECT_POSITION.HORZ_SET    -> <<bc[1], bc[2]>>
                        [] horz = OBJECT_POSITION.HORZ_CENTER -> <<INTTOFIX(50), UNIT.PCT>>
                        [] horz = OBJECT_POSITION.HORZ_RIGHT  -> <<INTTOFIX(100), UNIT.PCT>>
                        [] horz = OBJECT_POSITION.HORZ_LEFT   -> <<INTTOFIX(0), UNIT.PCT>>
                        [] OTHER -> <<0, UNIT.PX>>
        bc1   == IF hset THEN drop(bc, 2) ELSE bc
        vset  == ~flag /\ vert = OBJECT_POSITION.VERT_SET
        v     == IF flag THEN <<0, UNIT.PX>>
                 ELSE CASE vert = OBJECT_POSITION.VERT_SET    -> <<bc1[1], bc1[2]>>
                        [] vert = OBJECT_POSITION.VERT_CENTER -> <<INTTOFIX(50), UNIT.PCT>>
                        [] vert = OBJECT_POSITION.VERT_BOTTOM -> <<INTTOFIX(100), UNIT.PCT>>
                        [] vert = OBJECT_POSITION.VERT_TOP    -> <<INTTOFIX(0), UNIT.PCT>>
                        [] OTHER -> <<0, UNIT.PX>>
        bc2   == IF vset THEN drop(bc1, 2) ELSE bc1
        value == IF flag THEN "CSS_OBJECT_POSITION_INHERIT" ELSE "CSS_OBJECT_POSITION_SET"
    IN  IF css__outranks_existing("object_position", isImportant(opv), st, prio)
        THEN CascadeResult("CSS_OK", bc2, "true",
                [comp EXCEPT !["object_position"] =
                    [type |-> value,
                     hlength |-> h[1], hunit |-> css__to_css_unit(h[2]),
                     vlength |-> v[1], vunit |-> css__to_css_unit(v[2])]],
                outranked("object_position", isImportant(opv), st, prio))
        ELSE CascadeResult("CSS_OK", bc2, "false", comp, st)

\* A reader that takes a second value and unit for translate alone.
transform_words_translate_only(func_type) ==
    IF func_type = TRANSFORM.TRANSLATE THEN 5 ELSE 3

\* The words one transform function takes in the bytecode.
transform_words(func_type) ==
    IF func_type = TRANSFORM.TRANSLATE \/ func_type = TRANSFORM.SCALE THEN 5 ELSE 3

\* The n transform functions read from the bytecode.
RECURSIVE read_functions(_, _)
read_functions(bc, n) ==
    IF n = 0 THEN <<>>
    ELSE LET func_type == bc[1]
             two == func_type = TRANSFORM.TRANSLATE \/ func_type = TRANSFORM.SCALE
         IN  <<[type   |-> func_type,
                value1 |-> bc[2],
                unit1  |-> css__to_css_unit(bc[3]),
                value2 |-> IF two THEN bc[4] ELSE 0,
                unit2  |-> IF two THEN css__to_css_unit(bc[5]) ELSE "CSS_UNIT_PX"]>>
             \o read_functions(drop(bc, transform_words(func_type)), n - 1)

RECURSIVE functions_words(_, _)
functions_words(bc, n) ==
    IF n = 0 THEN 0
    ELSE transform_words(bc[1])
         + functions_words(drop(bc, transform_words(bc[1])), n - 1)

css__cascade_transform(opv, bc, comp, st, prio, malloc_ok, set_ok) ==
    LET has == ~hasFlagValue(opv) /\ getValue(opv) # TRANSFORM.NONE
        n_functions == IF has THEN bc[1] ELSE 0
        bc1   == IF has THEN drop(bc, 1) ELSE bc
        value == IF hasFlagValue(opv) THEN "CSS_TRANSFORM_INHERIT"
                 ELSE IF getValue(opv) = TRANSFORM.NONE THEN "CSS_TRANSFORM_NONE"
                 ELSE "CSS_TRANSFORM_FUNCTIONS"
    IN  IF has /\ n_functions > 0 /\ ~malloc_ok
        THEN CascadeResult("CSS_NOMEM", bc1, "notcalled", comp, st)
        ELSE LET functions == IF has THEN read_functions(bc1, n_functions) ELSE NULL
                 bc2 == IF has THEN drop(bc1, functions_words(bc1, n_functions)) ELSE bc1
             IN  IF css__outranks_existing("transform", isImportant(opv), st, prio)
                 THEN IF set_ok
                      THEN CascadeResult("CSS_OK", bc2, "true",
                             [comp EXCEPT !["transform"] =
                                 [type |-> value, n_functions |-> n_functions,
                                  functions |-> functions]],
                             outranked("transform", isImportant(opv), st, prio))
                      ELSE CascadeResult("CSS_NOMEM", bc2, "true", comp,
                             outranked("transform", isImportant(opv), st, prio))
                 ELSE CascadeResult("CSS_OK", bc2, "false", comp, st)

\* The declarations a rule can hold, as the parser emits them.
Declarations(flags) ==
    { <<buildOPV(CSS_PROP("grid_auto_flow"), flags, GRID_AUTO_FLOW.COLUMN)>>,
      <<buildOPV(CSS_PROP("grid_template_columns"), flags, GRID_TEMPLATE.NONE)>>,
      <<buildOPV(CSS_PROP("grid_template_columns"), flags, GRID_TEMPLATE.SET),
        1, INTTOFIX(1), UNIT.FR>>,
      <<buildOPV(CSS_PROP("grid_template_columns"), flags, GRID_TEMPLATE.SET),
        2, INTTOFIX(100), UNIT.PX, INTTOFIX(50), UNIT.PCT>>,
      <<buildOPV(CSS_PROP("grid_template_columns"), flags + 2 * FLAG_VALUE.INHERIT, 0)>>,
      <<buildOPV(CSS_PROP("grid_template_rows"), flags, GRID_TEMPLATE.NONE)>>,
      <<buildOPV(CSS_PROP("grid_template_rows"), flags, GRID_TEMPLATE.SET),
        1, INTTOFIX(1), UNIT.FR>>,
      <<buildOPV(CSS_PROP("grid_template_rows"), flags, GRID_TEMPLATE.SET),
        2, INTTOFIX(100), UNIT.PX, INTTOFIX(50), UNIT.PCT>>,
      <<buildOPV(CSS_PROP("object_fit"), flags, OBJECT_FIT.COVER)>>,
      <<buildOPV(CSS_PROP("object_position"), flags,
                 OBJECT_POSITION.HORZ_SET + OBJECT_POSITION.VERT_SET),
        INTTOFIX(10), UNIT.PX, INTTOFIX(20), UNIT.PCT>>,
      <<buildOPV(CSS_PROP("object_position"), flags,
                 OBJECT_POSITION.HORZ_CENTER + OBJECT_POSITION.VERT_TOP)>>,
      <<buildOPV(CSS_PROP("transform"), flags, TRANSFORM.NONE)>>,
      <<buildOPV(CSS_PROP("transform"), flags, TRANSFORM.NONE + 1),
        1, TRANSFORM.ROTATE, INTTOFIX(45), UNIT.DEG>>,
      <<buildOPV(CSS_PROP("transform"), flags, TRANSFORM.NONE + 1),
        2, TRANSFORM.TRANSLATE, INTTOFIX(10), UNIT.PX, INTTOFIX(0), UNIT.PX,
           TRANSFORM.SCALEX, INTTOFIX(2), UNIT.NUMBER>>,
      <<buildOPV(CSS_PROP("transform"), flags + 2 * FLAG_VALUE.UNSET, 0)>> }

CascadeProps == {"grid_auto_flow", "grid_template_columns", "grid_template_rows",
                 "object_fit", "object_position", "transform"}

\* The computed style before any declaration is cascaded into it.
css_computed_style_create ==
    [p \in CascadeProps |->
        CASE p = "grid_auto_flow" -> "CSS_GRID_AUTO_FLOW_INHERIT"
          [] p = "object_fit"     -> "CSS_OBJECT_FIT_INHERIT"
          [] p = "object_position" ->
                [type |-> "CSS_OBJECT_POSITION_INHERIT",
                 hlength |-> 0, hunit |-> "CSS_UNIT_PX",
                 vlength |-> 0, vunit |-> "CSS_UNIT_PX"]
          [] p = "transform" ->
                [type |-> "CSS_TRANSFORM_INHERIT", n_functions |-> 0, functions |-> NULL]
          [] OTHER -> [type |-> "CSS_GRID_TEMPLATE_INHERIT", tracks |-> NULL]]

NoCall == [op |-> 0, opv |-> 0, entry |-> <<>>, before |-> css_computed_style_create,
           err |-> "CSS_OK", outranks |-> "notcalled"]

CasInit ==
    /\ style = <<>>
    /\ computed = css_computed_style_create
    /\ props = [p \in CascadeProps |-> 0]
    /\ cas_err = "CSS_OK"
    /\ cas_last = NoCall
    /\ cas_steps = 0
    /\ rows_build \in {"tracks", "todo"}

CasIdle ==
    /\ style = <<>>
    /\ computed = css_computed_style_create
    /\ props = [p \in CascadeProps |-> 0]
    /\ cas_err = "CSS_OK"
    /\ cas_last = NoCall
    /\ cas_steps = 0
    /\ rows_build = "tracks"

\* prop_dispatch[op].cascade(opv, style, state)
prop_dispatch(opv, bc, comp, st, prio, malloc_ok, set_ok) ==
    CASE getOpcode(opv) = CSS_PROP("grid_auto_flow") ->
            css__cascade_grid_auto_flow(opv, bc, comp, st, prio)
      [] getOpcode(opv) = CSS_PROP("grid_template_columns") ->
            css__cascade_grid_template_columns(opv, bc, comp, st, prio, malloc_ok)
      [] getOpcode(opv) = CSS_PROP("grid_template_rows") ->
            IF rows_build = "tracks"
            THEN css__cascade_grid_template_rows(opv, bc, comp, st, prio, malloc_ok)
            ELSE css__cascade_grid_template_rows_todo(opv, bc, comp, st, prio)
      [] getOpcode(opv) = CSS_PROP("object_fit") ->
            css__cascade_object_fit(opv, bc, comp, st, prio)
      [] getOpcode(opv) = CSS_PROP("object_position") ->
            css__cascade_object_position(opv, bc, comp, st, prio)
      [] getOpcode(opv) = CSS_PROP("transform") ->
            css__cascade_transform(opv, bc, comp, st, prio, malloc_ok, set_ok)

\* cascade_style, one declaration: the opcode word is read and the cursor
\* moved past it, then the property's cascade function runs.
CascadeDecl ==
    /\ cas_err = "CSS_OK"
    /\ style = <<>>
    /\ cas_steps < MaxSteps
    /\ \E flags \in {0, FLAG_IMPORTANT}, prio \in Priorities,
          malloc_ok \in BOOLEAN, set_ok \in BOOLEAN :
         \E d \in Declarations(flags) :
            LET opv == d[1]
                bc  == drop(d, 1)
                r   == prop_dispatch(opv, bc, computed, props, prio, malloc_ok, set_ok)
            IN  /\ style' = r.style
                /\ computed' = r.computed
                /\ props' = r.props
                /\ cas_err' = r.err
                /\ cas_last' = [op |-> getOpcode(opv), opv |-> opv, entry |-> bc,
                                before |-> computed, err |-> r.err,
                                outranks |-> r.outranks]
                /\ cas_steps' = cas_steps + 1
    /\ UNCHANGED rows_build

\* cascade_style when a cascade function left words of its declaration
\* unread: the next word is taken for an opcode word, of a property that is
\* none of the declaration's.
CascadeMisread ==
    /\ cas_err = "CSS_OK"
    /\ style # <<>>
    /\ getOpcode(style[1]) \notin {CSS_PROP(p) : p \in CascadeProps}
    /\ style' = drop(style, 1)
    /\ cas_err' = "misread"
    /\ UNCHANGED <<computed, props, cas_last, cas_steps, rows_build>>

(***************************************************************************)
(* Compose and copy of the list-valued properties.                         *)
(***************************************************************************)
Styles    == {"parent", "child", "result"}
ListProps == {"grid_template_columns", "grid_template_rows", "transform"}
NullPtr   == 0

inherit_type(p) ==
    IF p = "transform" THEN "CSS_TRANSFORM_INHERIT" ELSE "CSS_GRID_TEMPLATE_INHERIT"
none_type(p) ==
    IF p = "transform" THEN "CSS_TRANSFORM_NONE" ELSE "CSS_GRID_TEMPLATE_NONE"
list_type(p) ==
    IF p = "transform" THEN "CSS_TRANSFORM_FUNCTIONS" ELSE "CSS_GRID_TEMPLATE_SET"

\* The list a cascade of the property stores: tracks with the terminator,
\* or transform functions.
list_of(s, p) ==
    IF p = "transform"
    THEN read_functions(<<TRANSFORM.ROTATE, INTTOFIX(IF s = "parent" THEN 45 ELSE 90),
                          UNIT.DEG>>, 1)
    ELSE read_tracks(<<INTTOFIX(IF s = "parent" THEN 1 ELSE 2), UNIT.FR>>, 1, TRUE)

list_count(p, list) == IF p = "transform" THEN Len(list) ELSE 0

\* The pointer the cascade allocated for the list of property p of style s.
ptr_of(s, p) ==
    (IF s = "parent" THEN 0 ELSE 3)
    + (CASE p = "grid_template_columns" -> 1
         [] p = "grid_template_rows"    -> 2
         [] p = "transform"             -> 3)

no_list(type) == [type |-> type, n |-> 0, ptr |-> NullPtr]

\* The styles of a parent and a child as selection left them, each list in
\* an allocation of its own, and a result style just created.
ComposeInit ==
    /\ \E pk \in [ListProps -> {"none", "list"}],
          ck \in [ListProps -> {"inherit", "list"}] :
         /\ styles = [s \in Styles |-> [p \in ListProps |->
                CASE s = "parent" ->
                        IF pk[p] = "list"
                        THEN [type |-> list_type(p),
                              n |-> list_count(p, list_of(s, p)), ptr |-> ptr_of(s, p)]
                        ELSE no_list(none_type(p))
                  [] s = "child" ->
                        IF ck[p] = "list"
                        THEN [type |-> list_type(p),
                              n |-> list_count(p, list_of(s, p)), ptr |-> ptr_of(s, p)]
                        ELSE no_list(inherit_type(p))
                  [] OTHER -> no_list(inherit_type(p))]]
         /\ live = {ptr_of("parent", p) : p \in {q \in ListProps : pk[q] = "list"}}
                   \cup {ptr_of("child", p) : p \in {q \in ListProps : ck[q] = "list"}}
    /\ heap = [a \in 1..6 |->
                 IF a <= 3
                 THEN list_of("parent", CHOOSE p \in ListProps : ptr_of("parent", p) = a)
                 ELSE list_of("child", CHOOSE p \in ListProps : ptr_of("child", p) = a)]
    /\ destroyed = {}
    /\ freed_twice = FALSE
    /\ cmp_err = "CSS_OK"
    /\ cmp_ops = 0

ComposeIdle ==
    /\ styles = [s \in Styles |-> [p \in ListProps |-> no_list(inherit_type(p))]]
    /\ heap = <<>>
    /\ live = {}
    /\ destroyed = {}
    /\ freed_twice = FALSE
    /\ cmp_err = "CSS_OK"
    /\ cmp_ops = 0

\* The heap and the styles, as one value the operations transform.
Memory == [styles |-> styles, heap |-> heap, live |-> live,
           freed_twice |-> freed_twice, err |-> "CSS_OK"]

\* set_grid_template_columns, set_grid_template_rows, set_transform: the
\* style takes the caller's array, and the array it held before is freed.
set_list(m, p, to, type, n, ptr) ==
    LET old == m.styles[to][p].ptr
        rel == old # NullPtr /\ old # ptr
    IN  [m EXCEPT !.styles[to][p] = [type |-> type, n |-> n, ptr |-> ptr],
                  !.live = IF rel THEN @ \ {old} ELSE @,
                  !.freed_twice = @ \/ (rel /\ old \notin m.live)]

css__copy_grid_template_columns(m, from, to) ==
    IF from = to THEN m
    ELSE set_list(m, "grid_template_columns", to,
                  m.styles[from]["grid_template_columns"].type, 0,
                  m.styles[from]["grid_template_columns"].ptr)

css__compose_grid_template_columns(m, parent, child, result) ==
    LET c == m.styles[child]["grid_template_columns"]
        g == IF c.type = "CSS_GRID_TEMPLATE_INHERIT"
             THEN m.styles[parent]["grid_template_columns"] ELSE c
    IN  set_list(m, "grid_template_columns", result, g.type, 0, g.ptr)

css__copy_grid_template_rows(m, from, to) ==
    IF from = to THEN m
    ELSE set_list(m, "grid_template_rows", to,
                  m.styles[from]["grid_template_rows"].type, 0,
                  m.styles[from]["grid_template_rows"].ptr)

css__compose_grid_template_rows(m, parent, child, result) ==
    LET c == m.styles[child]["grid_template_rows"]
        g == IF c.type = "CSS_GRID_TEMPLATE_INHERIT"
             THEN m.styles[parent]["grid_template_rows"] ELSE c
    IN  set_list(m, "grid_template_rows", result, g.type, 0, g.ptr)

css__copy_transform(m, from, to, malloc_ok) ==
    IF from = to THEN m
    ELSE LET f == m.styles[from]["transform"]
         IN  IF f.type = "CSS_TRANSFORM_FUNCTIONS" /\ f.n > 0 /\ f.ptr # NullPtr
             THEN IF ~malloc_ok THEN [m EXCEPT !.err = "CSS_NOMEM"]
                  ELSE LET new_funcs == Len(m.heap) + 1
                           m1 == [m EXCEPT !.heap = Append(@, m.heap[f.ptr]),
                                           !.live = @ \cup {new_funcs}]
                       IN  set_list(m1, "transform", to, f.type, f.n, new_funcs)
             ELSE set_list(m, "transform", to, f.type, 0, NullPtr)

css__compose_transform(m, parent, child, result, malloc_ok) ==
    css__copy_transform(m,
        IF m.styles[child]["transform"].type = "CSS_TRANSFORM_INHERIT"
        THEN parent ELSE child,
        result, malloc_ok)

\* css_computed_style_destroy: the lists the style holds are freed.
css_computed_style_destroy(m, s) ==
    LET held == {m.styles[s][p].ptr : p \in ListProps} \ {NullPtr}
    IN  [m EXCEPT !.live = @ \ held,
                  !.freed_twice = @ \/ (held \ m.live # {})]

Stored(m) ==
    /\ styles' = m.styles
    /\ heap' = m.heap
    /\ live' = m.live
    /\ freed_twice' = m.freed_twice
    /\ cmp_err' = m.err
    /\ cmp_ops' = cmp_ops + 1

\* css_computed_style_compose, one list-valued property.
Compose ==
    /\ cmp_ops < MaxOps
    /\ Styles \cap destroyed = {}
    /\ \E p \in ListProps, malloc_ok \in BOOLEAN :
         Stored(CASE p = "grid_template_columns" ->
                        css__compose_grid_template_columns(Memory, "parent", "child", "result")
                  [] p = "grid_template_rows" ->
                        css__compose_grid_template_rows(Memory, "parent", "child", "result")
                  [] p = "transform" ->
                        css__compose_transform(Memory, "parent", "child", "result", malloc_ok))
    /\ UNCHANGED destroyed

\* css__copy_<property>(from, to) between two of the styles.
Copy ==
    /\ cmp_ops < MaxOps
    /\ \E p \in ListProps, from \in Styles \ destroyed, to \in Styles \ destroyed,
          malloc_ok \in BOOLEAN :
         Stored(CASE p = "grid_template_columns" ->
                        css__copy_grid_template_columns(Memory, from, to)
                  [] p = "grid_template_rows" ->
                        css__copy_grid_template_rows(Memory, from, to)
                  [] p = "transform" ->
                        css__copy_transform(Memory, from, to, malloc_ok))
    /\ UNCHANGED destroyed

\* css_computed_style_destroy of one of the styles.
Destroy ==
    /\ cmp_ops < MaxOps
    /\ \E s \in Styles \ destroyed :
         /\ Stored(css_computed_style_destroy(Memory, s))
         /\ destroyed' = destroyed \cup {s}

(***************************************************************************)
(* Property parsers: parse/properties.                                     *)
(***************************************************************************)
\* v, evaluated once, handed to Op.
With(v, Op(_)) == CHOOSE r \in {Op(x) : x \in {v}} : TRUE

\* A token: its type, its text (idata), the number the text reads as
\* (css_fixed) and the unit text of a dimension.
Tok(type, data, num, unit) == [type |-> type, data |-> data, num |-> num, unit |-> unit]
Ident(name)    == Tok("IDENT", name, 0, "")
Function(name) == Tok("FUNCTION", name, 0, "")
Char(c)        == Tok("CHAR", c, 0, "")
Number(fixed)  == Tok("NUMBER", "", fixed, "")
Dimension(fixed, unit) == Tok("DIMENSION", "", fixed, unit)
Percentage(fixed)      == Tok("PERCENTAGE", "", fixed, "")
Whitespace     == Tok("S", " ", 0, "")
Uri            == Tok("URI", "a.png", 0, "")
NoToken        == Tok("NULL", "", 0, "")

tokenIsChar(token, c) == token.type = "CHAR" /\ token.data = c
tokenIsIdent(token, name) == token.type = "IDENT" /\ token.data = name

\* parserutils_vector_peek: the token at the cursor, or none at the end.
parserutils_vector_peek(vector, ctx) ==
    IF ctx >= 0 /\ ctx < Len(vector) THEN vector[ctx + 1] ELSE NoToken

\* parserutils_vector_iterate moves the cursor past the token it returns.
iterate_ctx(vector, ctx) ==
    IF parserutils_vector_peek(vector, ctx).type = "NULL" THEN ctx ELSE ctx + 1

RECURSIVE consumeWhitespace(_, _)
consumeWhitespace(vector, ctx) ==
    IF parserutils_vector_peek(vector, ctx).type = "S"
    THEN consumeWhitespace(vector, ctx + 1) ELSE ctx

get_css_flag_value(token) ==
    IF token.type # "IDENT" THEN FLAG_VALUE.NONE
    ELSE CASE token.data = "inherit" -> FLAG_VALUE.INHERIT
           [] token.data = "initial" -> FLAG_VALUE.INITIAL
           [] token.data = "revert"  -> FLAG_VALUE.REVERT
           [] token.data = "unset"   -> FLAG_VALUE.UNSET
           [] OTHER -> FLAG_VALUE.NONE

\* css__parse_unit_keyword: the bytecode unit of a dimension's unit text.
css__parse_unit_keyword(unit) ==
    CASE unit = "px"  -> UNIT.PX
      [] unit = "deg" -> UNIT.DEG
      [] unit = "fr"  -> UNIT.FR
      [] OTHER -> -1

\* css__parse_unit_specifier: a dimension, a percentage or the number 0;
\* on failure the cursor is where it was.
css__parse_unit_specifier(vector, ctx, default_unit) ==
    LET token == parserutils_vector_peek(vector, consumeWhitespace(vector, ctx))
        after == consumeWhitespace(vector, ctx) + 1
        bad   == [err |-> "CSS_INVALID", ctx |-> ctx, length |-> 0, unit |-> 0]
    IN  CASE token.type = "DIMENSION" ->
                IF css__parse_unit_keyword(token.unit) < 0 THEN bad
                ELSE [err |-> "CSS_OK", ctx |-> after, length |-> token.num,
                      unit |-> css__parse_unit_keyword(token.unit)]
          [] token.type = "NUMBER" ->
                IF token.num # 0 THEN bad
                ELSE [err |-> "CSS_OK", ctx |-> after, length |-> token.num,
                      unit |-> default_unit]
          [] token.type = "PERCENTAGE" ->
                [err |-> "CSS_OK", ctx |-> after, length |-> token.num,
                 unit |-> UNIT.PCT]
          [] OTHER -> bad

\* The state a parser threads through: the cursor, the style being built,
\* the appends the allocator will still grant (-1: all), and the error.
ParseState(ctx, out, budget, err) ==
    [ctx |-> ctx, out |-> out, mem |-> budget, err |-> err]

\* css__stylesheet_style_append: one word, or CSS_NOMEM.
css__stylesheet_style_append(ps, word) ==
    IF ps.err # "CSS_OK" THEN ps
    ELSE IF ps.mem = 0 THEN [ps EXCEPT !.err = "CSS_NOMEM"]
    ELSE [ps EXCEPT !.out = Append(@, word),
                    !.mem = IF @ > 0 THEN @ - 1 ELSE @]

css__stylesheet_style_appendOPV(ps, op, flags, value) ==
    css__stylesheet_style_append(ps, buildOPV(op, flags, value))

css_stylesheet_style_flag_value(ps, flag_value, op) ==
    css__stylesheet_style_appendOPV(ps, op, 2 * flag_value, 0)

\* "*ctx = orig_ctx; return CSS_INVALID;"
invalid_keeping_cursor(ps, orig_ctx) == [ps EXCEPT !.err = "CSS_INVALID"]

invalid(ps, orig_ctx) == [ps EXCEPT !.ctx = orig_ctx, !.err = "CSS_INVALID"]

\* "if (error != CSS_OK) *ctx = orig_ctx; return error;"
restored_on_error(ps, orig_ctx) ==
    IF ps.err # "CSS_OK" THEN [ps EXCEPT !.ctx = orig_ctx] ELSE ps

bad_length_unit(u) ==
    unit_has(u, UNIT.ANGLE) \/ unit_has(u, UNIT.TIME) \/ unit_has(u, UNIT.FREQ)

css__parse_gap(vector, ctx, budget) ==
    LET orig_ctx == ctx
        ps0   == ParseState(ctx, <<>>, budget, "CSS_OK")
        token == parserutils_vector_peek(vector, ctx)
        flag_value == get_css_flag_value(token)
    IN  IF token.type = "NULL" THEN invalid(ps0, orig_ctx)
        ELSE IF flag_value # FLAG_VALUE.NONE
        THEN restored_on_error(
                css_stylesheet_style_flag_value(
                    css_stylesheet_style_flag_value(
                        [ps0 EXCEPT !.ctx = iterate_ctx(vector, ctx)],
                        flag_value, CSS_PROP("row_gap")),
                    flag_value, CSS_PROP("column_gap")),
                orig_ctx)
        ELSE IF tokenIsIdent(token, "normal")
        THEN restored_on_error(
                css__stylesheet_style_appendOPV(
                    css__stylesheet_style_appendOPV(
                        [ps0 EXCEPT !.ctx = iterate_ctx(vector, ctx)],
                        CSS_PROP("row_gap"), 0, ROW_GAP.NORMAL),
                    CSS_PROP("column_gap"), 0, COLUMN_GAP.NORMAL),
                orig_ctx)
        ELSE LET first == css__parse_unit_specifier(vector, ctx, UNIT.PX)
             IN  IF first.err # "CSS_OK" THEN invalid(ps0, orig_ctx)
                 ELSE IF bad_length_unit(first.unit)
                 THEN invalid([ps0 EXCEPT !.ctx = first.ctx], orig_ctx)
                 ELSE IF first.length < 0
                 THEN invalid([ps0 EXCEPT !.ctx = first.ctx], orig_ctx)
                 ELSE LET ctx1 == consumeWhitespace(vector, first.ctx)
                          second == css__parse_unit_specifier(vector, ctx1, UNIT.PX)
                          two == /\ parserutils_vector_peek(vector, ctx1).type # "NULL"
                                 /\ parserutils_vector_peek(vector, ctx1).type # "EOF"
                                 /\ second.err = "CSS_OK"
                                 /\ ~bad_length_unit(second.unit)
                                 /\ second.length >= 0
                          ctx2 == IF two THEN second.ctx ELSE ctx1
                          len2 == IF two THEN second.length ELSE first.length
                          unit2 == IF two THEN second.unit ELSE first.unit
                          a1 == css__stylesheet_style_appendOPV(
                                    [ps0 EXCEPT !.ctx = ctx2],
                                    CSS_PROP("row_gap"), 0, ROW_GAP.SET)
                          a2 == css__stylesheet_style_append(a1, first.length)
                          a3 == css__stylesheet_style_append(a2, first.unit)
                          a4 == css__stylesheet_style_appendOPV(
                                    a3, CSS_PROP("column_gap"), 0, COLUMN_GAP.SET)
                          a5 == css__stylesheet_style_append(a4, len2)
                          a6 == css__stylesheet_style_append(a5, unit2)
                      IN  restored_on_error(a6, orig_ctx)

\* parse_grid_line_value: auto, or a non-zero integer.
parse_grid_line_value(vector, ctx) ==
    LET token == parserutils_vector_peek(vector, ctx)
        bad   == [err |-> "CSS_INVALID", ctx |-> ctx,
                  value |-> CSS_GRID_LINE.AUTO, integer |-> 0]
    IN  IF token.type = "NULL" THEN bad
        ELSE IF tokenIsIdent(token, "auto")
        THEN [err |-> "CSS_OK", ctx |-> ctx + 1,
              value |-> CSS_GRID_LINE.AUTO, integer |-> 0]
        ELSE IF token.type = "NUMBER"
        THEN IF token.num % 1024 # 0 THEN bad
             ELSE IF token.num = 0 THEN bad
             ELSE [err |-> "CSS_OK", ctx |-> ctx + 1,
                   value |-> CSS_GRID_LINE.SET, integer |-> token.num]
        ELSE bad

grid_area_props ==
    <<CSS_PROP("grid_row_start"), CSS_PROP("grid_column_start"),
      CSS_PROP("grid_row_end"), CSS_PROP("grid_column_end")>>

\* The loop over up to four values separated by '/': the values read and
\* the cursor the loop leaves.
RECURSIVE grid_area_values(_, _, _, _)
grid_area_values(vector, ctx, i, values) ==
    IF i >= 4 THEN [err |-> "CSS_OK", ctx |-> ctx, values |-> values]
    ELSE LET line == parse_grid_line_value(vector, ctx)
         IN  IF line.err # "CSS_OK"
             THEN [err |-> IF i = 0 THEN line.err ELSE "CSS_OK",
                   ctx |-> ctx, values |-> values]
             ELSE LET values1 == [values EXCEPT ![i + 1] =
                                    [value |-> line.value, integer |-> line.integer]]
                      ctx1 == consumeWhitespace(vector, line.ctx)
                      token == parserutils_vector_peek(vector, ctx1)
                  IN  IF token.type = "NULL" \/ ~tokenIsChar(token, "/")
                      THEN [err |-> "CSS_OK", ctx |-> ctx1, values |-> values1]
                      ELSE grid_area_values(vector,
                                consumeWhitespace(vector, ctx1 + 1), i + 1, values1)

\* The emission of the four longhands.
RECURSIVE grid_area_emit(_, _, _)
grid_area_emit(ps, values, i) ==
    IF i >= 4 \/ ps.err # "CSS_OK" THEN ps
    ELSE LET a1 == css__stylesheet_style_appendOPV(
                        ps, grid_area_props[i + 1], 0, values[i + 1].value)
             a2 == IF values[i + 1].value = CSS_GRID_LINE.SET
                   THEN css__stylesheet_style_append(a1, values[i + 1].integer)
                   ELSE a1
         IN  grid_area_emit(a2, values, i + 1)

RECURSIVE grid_area_flags(_, _, _)
grid_area_flags(ps, flag_value, i) ==
    IF i >= 4 \/ ps.err # "CSS_OK" THEN ps
    ELSE grid_area_flags(
            css_stylesheet_style_flag_value(ps, flag_value, grid_area_props[i + 1]),
            flag_value, i + 1)

css__parse_grid_area(vector, ctx, budget) ==
    LET orig_ctx == ctx
        ps0   == ParseState(ctx, <<>>, budget, "CSS_OK")
        token == parserutils_vector_peek(vector, ctx)
        flag_value == get_css_flag_value(token)
    IN  IF token.type = "NULL" THEN invalid(ps0, orig_ctx)
        ELSE IF flag_value # FLAG_VALUE.NONE
        THEN restored_on_error(
                grid_area_flags([ps0 EXCEPT !.ctx = iterate_ctx(vector, ctx)],
                                flag_value, 0),
                orig_ctx)
        ELSE LET read == grid_area_values(vector, ctx, 0,
                            [k \in 1..4 |-> [value |-> CSS_GRID_LINE.AUTO, integer |-> 0]])
             IN  IF read.err # "CSS_OK"
                 THEN invalid([ps0 EXCEPT !.ctx = read.ctx], orig_ctx)
                 ELSE restored_on_error(
                        grid_area_emit([ps0 EXCEPT !.ctx = read.ctx], read.values, 0),
                        orig_ctx)

MAX_GRID_TRACKS == 32

\* The track-list loop: the tracks read and the cursor the loop leaves.
RECURSIVE grid_track_list(_, _, _)
grid_track_list(vector, ctx, tracks) ==
    IF Len(tracks) >= MAX_GRID_TRACKS THEN [ctx |-> ctx, tracks |-> tracks]
    ELSE IF parserutils_vector_peek(vector, ctx).type = "NULL"
    THEN [ctx |-> ctx, tracks |-> tracks]
    ELSE LET spec == css__parse_unit_specifier(vector, ctx, UNIT.PX)
         IN  IF spec.err = "CSS_OK"
             THEN grid_track_list(vector, spec.ctx,
                        Append(tracks, <<spec.length, spec.unit>>))
             ELSE IF tokenIsIdent(parserutils_vector_peek(vector, spec.ctx), "auto")
             THEN grid_track_list(vector, spec.ctx + 1,
                        Append(tracks, <<INTTOFIX(1), UNIT.FR>>))
             ELSE [ctx |-> spec.ctx, tracks |-> tracks]

RECURSIVE grid_tracks_emit(_, _)
grid_tracks_emit(ps, tracks) ==
    IF tracks = <<>> \/ ps.err # "CSS_OK" THEN ps
    ELSE grid_tracks_emit(
            css__stylesheet_style_append(
                css__stylesheet_style_append(ps, tracks[1][1]), tracks[1][2]),
            Tail(tracks))

\* emit_tracks: the opcode word, the count, then each track.
emit_tracks(ps, tracks, orig_ctx) ==
    restored_on_error(
        grid_tracks_emit(
            css__stylesheet_style_append(
                css__stylesheet_style_appendOPV(
                    ps, CSS_PROP("grid_template_rows"), 0, GRID_TEMPLATE.SET),
                Len(tracks)),
            tracks),
        orig_ctx)

css__parse_grid_template_rows(vector, ctx, budget) ==
    LET orig_ctx == ctx
        ps0   == ParseState(ctx, <<>>, budget, "CSS_OK")
        token == parserutils_vector_peek(vector, ctx)
        ps1   == [ps0 EXCEPT !.ctx = iterate_ctx(vector, ctx)]
    IN  IF token.type = "NULL" THEN invalid(ps0, orig_ctx)
        ELSE IF tokenIsIdent(token, "inherit")
        THEN css_stylesheet_style_flag_value(
                ps1, FLAG_VALUE.INHERIT, CSS_PROP("grid_template_rows"))
        ELSE IF tokenIsIdent(token, "initial")
        THEN css__stylesheet_style_appendOPV(
                ps1, CSS_PROP("grid_template_rows"), 0, GRID_TEMPLATE.NONE)
        ELSE IF tokenIsIdent(token, "revert")
        THEN css_stylesheet_style_flag_value(
                ps1, FLAG_VALUE.REVERT, CSS_PROP("grid_template_rows"))
        ELSE IF tokenIsIdent(token, "unset")
        THEN css__stylesheet_style_appendOPV(
                ps1, CSS_PROP("grid_template_rows"), FLAG_VALUE.UNSET, 0)
        ELSE IF tokenIsIdent(token, "none")
        THEN css__stylesheet_style_appendOPV(
                ps1, CSS_PROP("grid_template_rows"), 0, GRID_TEMPLATE.NONE)
        ELSE IF tokenIsIdent(token, "auto")
        THEN emit_tracks(ps1, <<<<INTTOFIX(1), UNIT.FR>>>>, orig_ctx)
        ELSE LET list == grid_track_list(vector, orig_ctx, <<>>)
             IN  IF list.tracks = <<>>
                 THEN invalid([ps0 EXCEPT !.ctx = list.ctx], orig_ctx)
                 ELSE emit_tracks([ps0 EXCEPT !.ctx = list.ctx], list.tracks, orig_ctx)

F_100 == INTTOFIX(100)
FDIV(a, b) == (a * 1024) \div b

\* One argument of scale(): a number or a percentage, read directly.
scale_argument(vector, ctx) ==
    LET token == parserutils_vector_peek(vector, ctx)
    IN  IF token.type = "NUMBER"
        THEN [err |-> "CSS_OK", ctx |-> ctx + 1, length |-> token.num,
              unit |-> UNIT.NUMBER]
        ELSE IF token.type = "PERCENTAGE"
        THEN [err |-> "CSS_OK", ctx |-> ctx + 1, length |-> FDIV(token.num, F_100),
              unit |-> UNIT.PCT]
        ELSE [err |-> "CSS_INVALID", ctx |-> ctx, length |-> 0, unit |-> 0]

\* The first argument of a transform function, after the whitespace.
transform_argument1(vector, ctx, allow_pct, is_angle, is_scale) ==
    With(IF is_angle THEN css__parse_unit_specifier(vector, ctx, UNIT.DEG)
         ELSE IF is_scale THEN scale_argument(vector, ctx)
         ELSE css__parse_unit_specifier(vector, ctx, UNIT.PX),
         LAMBDA spec :
            IF spec.err # "CSS_OK" THEN spec
            ELSE IF is_angle
            THEN IF ~unit_has(spec.unit, UNIT.ANGLE)
                 THEN [spec EXCEPT !.err = "CSS_INVALID"] ELSE spec
            ELSE IF is_scale THEN spec
            ELSE IF bad_length_unit(spec.unit) THEN [spec EXCEPT !.err = "CSS_INVALID"]
            ELSE IF ~allow_pct /\ unit_has(spec.unit, UNIT.PCT)
            THEN [spec EXCEPT !.err = "CSS_INVALID"]
            ELSE spec)

\* The second argument, after the comma and the whitespace.
transform_argument2(vector, ctx, is_angle, is_scale) ==
    IF is_angle THEN css__parse_unit_specifier(vector, ctx, UNIT.DEG)
    ELSE IF is_scale THEN scale_argument(vector, ctx)
    ELSE css__parse_unit_specifier(vector, ctx, UNIT.PX)

\* The end of parse_transform_function: the closing parenthesis, then the
\* words of the function.  A failed append returns with the cursor where
\* the function's parse left it.
transform_function_close(vector, ps, func_type, num_args, arg1, value2, unit2, ctx2) ==
    IF ~tokenIsChar(parserutils_vector_peek(vector, ctx2), ")")
    THEN invalid([ps EXCEPT !.ctx = iterate_ctx(vector, ctx2)], ps.ctx)
    ELSE LET a1 == css__stylesheet_style_append(
                        [ps EXCEPT !.ctx = ctx2 + 1], func_type)
             a2 == css__stylesheet_style_append(a1, arg1.length)
             a3 == css__stylesheet_style_append(a2, arg1.unit)
         IN  IF num_args = 2 \/ func_type = TRANSFORM.TRANSLATE
                             \/ func_type = TRANSFORM.SCALE
             THEN css__stylesheet_style_append(
                    css__stylesheet_style_append(a3, value2), unit2)
             ELSE a3

\* parse_transform_function: the arguments of one function; ps.ctx is the
\* function's orig_ctx.
parse_transform_function(vector, ps, func_type, num_args, allow_pct, is_angle) ==
    LET is_scale == func_type \in {TRANSFORM.SCALE, TRANSFORM.SCALEX, TRANSFORM.SCALEY}
    IN  With(transform_argument1(vector, consumeWhitespace(vector, ps.ctx),
                                 allow_pct, is_angle, is_scale),
        LAMBDA arg1 :
          IF arg1.err # "CSS_OK" THEN invalid([ps EXCEPT !.ctx = arg1.ctx], ps.ctx)
          ELSE With(consumeWhitespace(vector, arg1.ctx),
          LAMBDA ctx1 :
            IF num_args = 2 /\ tokenIsChar(parserutils_vector_peek(vector, ctx1), ",")
            THEN With(transform_argument2(vector, consumeWhitespace(vector, ctx1 + 1),
                                          is_angle, is_scale),
                 LAMBDA arg2 :
                    IF arg2.err # "CSS_OK"
                    THEN invalid([ps EXCEPT !.ctx = arg2.ctx], ps.ctx)
                    ELSE transform_function_close(
                            vector, ps, func_type, num_args, arg1,
                            arg2.length, arg2.unit,
                            consumeWhitespace(vector, arg2.ctx)))
            ELSE transform_function_close(
                    vector, ps, func_type, num_args, arg1,
                    IF num_args = 2 /\ func_type = TRANSFORM.SCALE
                    THEN arg1.length ELSE 0,
                    IF num_args = 2 /\ func_type = TRANSFORM.TRANSLATE THEN UNIT.PX
                    ELSE IF num_args = 2 /\ func_type = TRANSFORM.SCALE THEN arg1.unit
                    ELSE 0,
                    ctx1)))

transform_function_named(name) ==
    CASE name = "translate"  -> <<TRANSFORM.TRANSLATE, 2, TRUE, FALSE>>
      [] name = "translatex" -> <<TRANSFORM.TRANSLATEX, 1, TRUE, FALSE>>
      [] name = "translatey" -> <<TRANSFORM.TRANSLATEY, 1, TRUE, FALSE>>
      [] name = "scale"      -> <<TRANSFORM.SCALE, 2, TRUE, FALSE>>
      [] name = "scalex"     -> <<TRANSFORM.SCALEX, 1, TRUE, FALSE>>
      [] name = "scaley"     -> <<TRANSFORM.SCALEY, 1, TRUE, FALSE>>
      [] name = "rotate"     -> <<TRANSFORM.ROTATE, 1, FALSE, TRUE>>
      [] OTHER -> <<>>

\* The function-list loop; the result carries the number of functions read.
RECURSIVE transform_function_list(_, _, _, _)
transform_function_list(vector, ps, orig_ctx, func_count) ==
    LET token == parserutils_vector_peek(vector, ps.ctx)
        ctx1  == consumeWhitespace(vector, ps.ctx + 1)
        f     == transform_function_named(token.data)
    IN  IF token.type = "NULL" THEN [ps |-> ps, func_count |-> func_count]
        ELSE IF token.type # "FUNCTION"
        THEN [ps |-> [ps EXCEPT !.ctx = ctx1 - 1], func_count |-> func_count]
        ELSE IF Len(f) = 0
        THEN [ps |-> invalid([ps EXCEPT !.ctx = ctx1], orig_ctx),
              func_count |-> func_count]
        ELSE With(parse_transform_function(vector, [ps EXCEPT !.ctx = ctx1],
                                           f[1], f[2], f[3], f[4]),
             LAMBDA r :
                IF r.err # "CSS_OK"
                THEN [ps |-> [r EXCEPT !.ctx = orig_ctx], func_count |-> func_count]
                ELSE transform_function_list(
                        vector, [r EXCEPT !.ctx = consumeWhitespace(vector, r.ctx)],
                        orig_ctx, func_count + 1))

css__parse_transform(vector, ctx, budget) ==
    LET orig_ctx == ctx
        ps0   == ParseState(ctx, <<>>, budget, "CSS_OK")
        token == parserutils_vector_peek(vector, ctx)
        ps1   == [ps0 EXCEPT !.ctx = iterate_ctx(vector, ctx)]
    IN  IF token.type = "NULL" THEN invalid(ps0, orig_ctx)
        ELSE IF get_css_flag_value(token) # FLAG_VALUE.NONE
        THEN css_stylesheet_style_flag_value(
                ps1, get_css_flag_value(token), CSS_PROP("transform"))
        ELSE IF tokenIsIdent(token, "none")
        THEN css__stylesheet_style_appendOPV(ps1, CSS_PROP("transform"), 0, TRANSFORM.NONE)
        ELSE With(css__stylesheet_style_append(
                    css__stylesheet_style_appendOPV(
                        ps1, CSS_PROP("transform"), 0, TRANSFORM.NONE + 1),
                    0),
             LAMBDA a2 :
                IF a2.err # "CSS_OK" THEN [a2 EXCEPT !.ctx = orig_ctx]
                ELSE With(transform_function_list(
                            vector, [a2 EXCEPT !.ctx = orig_ctx], orig_ctx, 0),
                     LAMBDA list :
                        IF list.ps.err # "CSS_OK" THEN list.ps
                        ELSE IF list.func_count = 0 THEN invalid(list.ps, orig_ctx)
                        ELSE [list.ps EXCEPT !.out[2] = list.func_count]))

\* css__stylesheet_style_create: an empty style, or CSS_NOMEM.
css__stylesheet_style_create(ps) ==
    IF ps.err # "CSS_OK" THEN ps
    ELSE IF ps.mem = 0 THEN [ps EXCEPT !.err = "CSS_NOMEM"]
    ELSE [ps EXCEPT !.mem = IF @ > 0 THEN @ - 1 ELSE @]

\* css__stylesheet_merge_style: the words of a style appended to the result,
\* or CSS_NOMEM.
css__stylesheet_merge_style(ps, words) ==
    IF ps.err # "CSS_OK" THEN ps
    ELSE IF ps.mem = 0 THEN [ps EXCEPT !.err = "CSS_NOMEM"]
    ELSE [ps EXCEPT !.out = @ \o words,
                    !.mem = IF @ > 0 THEN @ - 1 ELSE @]

\* The value of a content-distribution keyword, -1 for any other word.
content_keyword(name) ==
    CASE name = "stretch" -> 0
      [] name = "center"  -> 3
      [] OTHER -> -1

\* css__parse_align_content and css__parse_justify_content: one keyword of
\* the property into a style of its own; on any failure the cursor is where
\* it was.
css__parse_content(vector, ctx, budget, op) ==
    LET ps0   == ParseState(ctx, <<>>, budget, "CSS_OK")
        token == parserutils_vector_peek(vector, ctx)
        ps1   == [ps0 EXCEPT !.ctx = iterate_ctx(vector, ctx)]
    IN  IF token.type # "IDENT" THEN invalid(ps0, ctx)
        ELSE IF get_css_flag_value(token) # FLAG_VALUE.NONE
        THEN restored_on_error(
                css_stylesheet_style_flag_value(ps1, get_css_flag_value(token), op), ctx)
        ELSE IF content_keyword(token.data) >= 0
        THEN restored_on_error(
                css__stylesheet_style_appendOPV(ps1, op, 0, content_keyword(token.data)),
                ctx)
        ELSE invalid(ps1, ctx)

\* The end of css__parse_place_content: align_style is merged into the
\* result, then the justify-content style, which is the second value's when
\* there was one and the first value parsed again when there was none.
place_content_emit(vector, orig_ctx, ctx, budget, align_style, has_justify, justify_style) ==
    With(css__stylesheet_merge_style(ParseState(ctx, <<>>, budget, "CSS_OK"), align_style),
    LAMBDA m1 :
        IF m1.err # "CSS_OK" THEN [m1 EXCEPT !.ctx = orig_ctx]
        ELSE IF has_justify
        THEN restored_on_error(css__stylesheet_merge_style(m1, justify_style), orig_ctx)
        ELSE With(css__stylesheet_style_create(m1),
             LAMBDA c3 :
                IF c3.err # "CSS_OK" THEN [c3 EXCEPT !.ctx = orig_ctx]
                ELSE With(css__parse_content(vector, orig_ctx, c3.mem,
                                             CSS_PROP("justify_content")),
                     LAMBDA copy :
                        restored_on_error(
                            IF copy.err = "CSS_OK"
                            THEN css__stylesheet_merge_style(
                                    [c3 EXCEPT !.mem = copy.mem], copy.out)
                            ELSE [c3 EXCEPT !.mem = copy.mem, !.err = copy.err],
                            orig_ctx))))

\* css__parse_place_content: align-content, then an optional justify-content.
\* A failure to create the style of the second value returns with the cursor
\* after the first value and its whitespace.
css__parse_place_content(vector, ctx, budget) ==
    LET orig_ctx == ctx
        ps0 == ParseState(ctx, <<>>, budget, "CSS_OK")
    IN  IF parserutils_vector_peek(vector, ctx).type = "NULL"
        THEN invalid_keeping_cursor(ps0, orig_ctx)
        ELSE With(css__stylesheet_style_create(ps0),
        LAMBDA c1 :
          IF c1.err # "CSS_OK" THEN c1
          ELSE With(css__parse_content(vector, ctx, c1.mem, CSS_PROP("align_content")),
          LAMBDA align :
            IF align.err # "CSS_OK"
            THEN [ps0 EXCEPT !.mem = align.mem, !.err = align.err]
            ELSE With(consumeWhitespace(vector, align.ctx),
            LAMBDA ctx1 :
              IF parserutils_vector_peek(vector, ctx1).type = "NULL"
              THEN place_content_emit(vector, orig_ctx, ctx1, align.mem,
                                      align.out, FALSE, <<>>)
              ELSE With(css__stylesheet_style_create(
                            ParseState(ctx1, <<>>, align.mem, "CSS_OK")),
                   LAMBDA c2 :
                     IF c2.err # "CSS_OK" THEN c2
                     ELSE With(css__parse_content(vector, ctx1, c2.mem,
                                                  CSS_PROP("justify_content")),
                          LAMBDA justify :
                            place_content_emit(vector, orig_ctx, justify.ctx, justify.mem,
                                               align.out, justify.err = "CSS_OK",
                                               justify.out))))))

\* The skip of a gradient's content: the cursor after the ')' that brings
\* the depth to zero, or -1 when the tokens end first.
RECURSIVE gradient_skip(_, _, _)
gradient_skip(vector, ctx, depth) ==
    IF depth <= 0 THEN ctx
    ELSE LET token == parserutils_vector_peek(vector, ctx)
         IN  IF token.type = "NULL" THEN -1
             ELSE IF token.type = "FUNCTION"
             THEN gradient_skip(vector, ctx + 1, depth + 1)
             ELSE IF tokenIsChar(token, ")")
             THEN gradient_skip(vector, ctx + 1, depth - 1)
             ELSE gradient_skip(vector, ctx + 1, depth)

css__parse_background_image(vector, ctx, budget, uri_ok) ==
    LET orig_ctx == ctx
        ps0   == ParseState(ctx, <<>>, budget, "CSS_OK")
        token == parserutils_vector_peek(vector, ctx)
        ps1   == [ps0 EXCEPT !.ctx = iterate_ctx(vector, ctx)]
    IN  IF token.type = "NULL" THEN invalid(ps0, orig_ctx)
        ELSE IF token.type = "IDENT"
        THEN IF get_css_flag_value(token) # FLAG_VALUE.NONE
             THEN restored_on_error(
                    css_stylesheet_style_flag_value(
                        ps1, get_css_flag_value(token), CSS_PROP("background_image")),
                    orig_ctx)
             ELSE IF token.data = "none"
             THEN restored_on_error(
                    css__stylesheet_style_appendOPV(
                        ps1, CSS_PROP("background_image"), 0, BACKGROUND_IMAGE.NONE),
                    orig_ctx)
             ELSE invalid(ps1, orig_ctx)
        ELSE IF token.type = "URI"
        THEN IF ~uri_ok THEN [ps1 EXCEPT !.ctx = orig_ctx, !.err = "CSS_NOMEM"]
             ELSE restored_on_error(
                    css__stylesheet_style_append(
                        css__stylesheet_style_appendOPV(
                            ps1, CSS_PROP("background_image"), 0, BACKGROUND_IMAGE.URI),
                        1),
                    orig_ctx)
        ELSE IF token.type = "FUNCTION"
                /\ token.data \in {"linear-gradient", "radial-gradient"}
        THEN LET end == gradient_skip(vector, ps1.ctx, 1)
             IN  IF end < 0 THEN invalid(ps1, orig_ctx)
                 ELSE restored_on_error(
                        css__stylesheet_style_appendOPV(
                            [ps1 EXCEPT !.ctx = end],
                            CSS_PROP("background_image"), 0, BACKGROUND_IMAGE.NONE),
                        orig_ctx)
        ELSE invalid(ps1, orig_ctx)

(***************************************************************************)
(* The token vectors the parsers are run on.                               *)
(***************************************************************************)
Properties == {"gap", "grid_area", "grid_template_rows", "transform", "background_image",
               "place_content"}

\* The pieces a property's value is put together from: single tokens, and
\* for transform whole functions, well-formed and not.
Chunks(prop) ==
    CASE prop = "gap" ->
            { <<Ident("inherit")>>, <<Ident("normal")>>, <<Ident("foo")>>,
              <<Dimension(INTTOFIX(10), "px")>>, <<Dimension(INTTOFIX(-5), "px")>>,
              <<Dimension(INTTOFIX(45), "deg")>>, <<Percentage(INTTOFIX(50))>>,
              <<Number(0)>>, <<Number(INTTOFIX(2))>>, <<Whitespace>> }
      [] prop = "grid_area" ->
            { <<Ident("inherit")>>, <<Ident("auto")>>, <<Ident("foo")>>,
              <<Number(INTTOFIX(2))>>, <<Number(0)>>, <<Number(1536)>>,
              <<Char("/")>>, <<Whitespace>> }
      [] prop = "grid_template_rows" ->
            { <<Ident("inherit")>>, <<Ident("unset")>>, <<Ident("none")>>,
              <<Ident("auto")>>, <<Ident("foo")>>,
              <<Dimension(INTTOFIX(10), "px")>>, <<Dimension(INTTOFIX(1), "fr")>>,
              <<Dimension(INTTOFIX(3), "zz")>>, <<Percentage(INTTOFIX(50))>>,
              <<Whitespace>> }
      [] prop = "transform" ->
            { <<Ident("inherit")>>, <<Ident("none")>>, <<Ident("foo")>>, <<Whitespace>>,
              <<Function("translate"), Dimension(INTTOFIX(10), "px"), Char(","),
                Whitespace, Percentage(INTTOFIX(20)), Char(")")>>,
              <<Function("translate"), Dimension(INTTOFIX(10), "px"), Char(")")>>,
              <<Function("translatex"), Dimension(INTTOFIX(45), "deg"), Char(")")>>,
              <<Function("scale"), Number(INTTOFIX(2)), Char(")")>>,
              <<Function("scaley"), Percentage(INTTOFIX(50)), Char(")")>>,
              <<Function("rotate"), Whitespace, Dimension(INTTOFIX(45), "deg"), Char(")")>>,
              <<Function("rotate"), Dimension(INTTOFIX(45), "deg")>>,
              <<Function("matrix")>>, <<Char(")")>> }
      [] prop = "background_image" ->
            { <<Ident("inherit")>>, <<Ident("none")>>, <<Ident("red")>>, <<Uri>>,
              <<Function("linear-gradient")>>, <<Function("radial-gradient")>>,
              <<Function("rgb")>>, <<Char("(")>>, <<Char(")")>>, <<Char(",")>>,
              <<Whitespace>> }
      [] prop = "place_content" ->
            { <<Ident("inherit")>>, <<Ident("center")>>, <<Ident("stretch")>>,
              <<Ident("foo")>>, <<Number(0)>>, <<Whitespace>> }

RECURSIVE Flatten(_)
Flatten(chunks) ==
    IF chunks = <<>> THEN <<>> ELSE Head(chunks) \o Flatten(Tail(chunks))

Vectors(prop) ==
    { Flatten(cs) : cs \in UNION { [1..n -> Chunks(prop)] : n \in 0..MaxLen } }

\* The appends the allocator grants before it fails: all, none, or two.
MemBudgets == {-1, 0, 2}

ParseInit ==
    /\ prop_name \in Properties
    /\ tokens \in Vectors(prop_name)
    /\ entry_ctx \in {c \in {0, 1} : c <= Len(tokens)}
    /\ cursor = entry_ctx
    /\ emitted = <<>>
    /\ mem \in MemBudgets
    /\ parse_err = "CSS_OK"
    /\ parse_pc = "ready"

ParseIdle ==
    /\ prop_name = "gap"
    /\ tokens = <<>>
    /\ entry_ctx = 0
    /\ cursor = 0
    /\ emitted = <<>>
    /\ mem = -1
    /\ parse_err = "CSS_OK"
    /\ parse_pc = "ready"

\* The handler of the property has run: the cursor, the style and the error
\* it leaves.
Parsed(ps) ==
    /\ cursor' = ps.ctx
    /\ emitted' = ps.out
    /\ parse_err' = ps.err
    /\ parse_pc' = "done"
    /\ UNCHANGED <<prop_name, tokens, entry_ctx, mem>>

ParseGap ==
    /\ parse_pc = "ready" /\ prop_name = "gap"
    /\ Parsed(css__parse_gap(tokens, cursor, mem))

ParseGridArea ==
    /\ parse_pc = "ready" /\ prop_name = "grid_area"
    /\ Parsed(css__parse_grid_area(tokens, cursor, mem))

ParseGridTemplateRows ==
    /\ parse_pc = "ready" /\ prop_name = "grid_template_rows"
    /\ Parsed(css__parse_grid_template_rows(tokens, cursor, mem))

ParseTransform ==
    /\ parse_pc = "ready" /\ prop_name = "transform"
    /\ Parsed(css__parse_transform(tokens, cursor, mem))

ParseBackgroundImage ==
    /\ parse_pc = "ready" /\ prop_name = "background_image"
    /\ \E uri_ok \in BOOLEAN :
         Parsed(css__parse_background_image(tokens, cursor, mem, uri_ok))

ParsePlaceContent ==
    /\ parse_pc = "ready" /\ prop_name = "place_content"
    /\ Parsed(css__parse_place_content(tokens, cursor, mem))

(***************************************************************************)
(* Grid layout: track sizing and auto-placement.                           *)
(***************************************************************************)
\* The width of the grid of the 3-column scenario and the sizes the block
\* layout gives a child whose size is AUTO.
GRID_WIDTH   == 300
BLOCK_WIDTH  == 100
BLOCK_HEIGHT == 50

Track(value, unit) == [value |-> value, unit |-> unit]

\* A flexible track's share taken without regard to the sign of the remainder.
fr_share_of_any_remainder(value, remaining, total) == (remaining * value) \div total

\* A flexible track's share of the remaining space: proportional to its
\* multiplier, zero when no positive remainder exists.
fr_share(value, remaining, total) ==
    IF remaining > 0 /\ total > 0 THEN (remaining * value) \div total ELSE 0

\* The size of a fixed or percentage track.
fixed_track_size(t, available) ==
    IF t.unit = "CSS_UNIT_PCT" THEN ((t.value \div 1024) * available) \div 100
    ELSE t.value \div 1024

RECURSIVE tracks_total(_, _, _)
tracks_total(tracks, available, flexible) ==
    IF Len(tracks) = 0 THEN 0
    ELSE (IF (Head(tracks).unit = "CSS_UNIT_FR") # flexible THEN 0
          ELSE IF flexible THEN Head(tracks).value
          ELSE fixed_track_size(Head(tracks), available))
         + tracks_total(Tail(tracks), available, flexible)

\* Track sizing: fixed and percentage tracks first, then the flexible
\* tracks share what remains of the container after them and the gaps.
grid_track_sizes(tracks, available, gap) ==
    With(available - tracks_total(tracks, available, FALSE) - gap * (Len(tracks) - 1),
         LAMBDA remaining :
            With(tracks_total(tracks, available, TRUE),
                 LAMBDA total :
                    [i \in 1..Len(tracks) |->
                        IF tracks[i].unit = "CSS_UNIT_FR"
                        THEN fr_share(tracks[i].value, remaining, total)
                        ELSE fixed_track_size(tracks[i], available)]))

\* layout_block_context as the grid test provides it: an AUTO width becomes
\* 100, an AUTO height 50, and the block is put at (0, 0).
layout_block_context(block) ==
    [x |-> 0, y |-> 0,
     width  |-> IF block.width = AUTO THEN BLOCK_WIDTH ELSE block.width,
     height |-> IF block.height = AUTO THEN BLOCK_HEIGHT ELSE block.height]

\* Every column at the left edge of the container.
column_x_at_origin(widths, gap, col) == 0

\* The x offset of a column: the widths of the columns before it and the gaps.
RECURSIVE column_x(_, _, _)
column_x(widths, gap, col) ==
    IF col = 0 THEN 0 ELSE column_x(widths, gap, col - 1) + widths[col] + gap

\* The height of a row: that of its tallest child.
row_height(laid, n, row) ==
    LET hs == {laid[i].height : i \in {j \in 1..Len(laid) : (j - 1) \div n = row}}
    IN  CHOOSE h \in hs : \A g \in hs : g <= h

RECURSIVE row_y(_, _, _)
row_y(laid, n, row) ==
    IF row = 0 THEN 0 ELSE row_y(laid, n, row - 1) + row_height(laid, n, row - 1)

\* Auto-placement: the children in document order fill row-major cells;
\* each takes the width of its column and is laid out as a block.
grid_place(kids, widths, gap) ==
    With([i \in 1..Len(kids) |->
            layout_block_context([kids[i] EXCEPT !.width = widths[((i - 1) % Len(widths)) + 1]])],
         LAMBDA laid :
            [i \in 1..Len(kids) |->
                [laid[i] EXCEPT !.x = column_x(widths, gap, (i - 1) % Len(widths)),
                                !.y = row_y(laid, Len(widths), (i - 1) \div Len(widths))]])

GridTracks ==
    UNION {[1..n -> {Track(INTTOFIX(1), "CSS_UNIT_FR"), Track(INTTOFIX(2), "CSS_UNIT_FR"),
                     Track(INTTOFIX(1), "CSS_UNIT_PX"), Track(INTTOFIX(50), "CSS_UNIT_PCT")}]
           : n \in 1..MaxCols}
GridKids ==
    UNION {[1..k -> {[x |-> 0, y |-> 0, width |-> AUTO, height |-> h] : h \in {AUTO, 1}}]
           : k \in 0..MaxKids}

GridIdle ==
    /\ grid_tracks = <<>>
    /\ grid_width = 0
    /\ column_gap = 0
    /\ children = <<>>
    /\ col_widths = <<>>
    /\ grid_ok = FALSE
    /\ grid_pc = "start"

GridInit ==
    /\ grid_tracks \in GridTracks
    /\ grid_width \in (0..MaxSize) \cup {GRID_WIDTH}
    /\ column_gap \in 0..1
    /\ children \in GridKids
    /\ col_widths = <<>>
    /\ grid_ok = FALSE
    /\ grid_pc = "start"

\* layout_grid: FALSE on memory exhaustion, with nothing placed.
layout_grid ==
    /\ grid_pc = "start"
    /\ grid_pc' = "done"
    /\ \E alloc_ok \in BOOLEAN :
         IF alloc_ok
         THEN /\ col_widths' = grid_track_sizes(grid_tracks, grid_width, column_gap)
              /\ children' = grid_place(children, col_widths', column_gap)
              /\ grid_ok' = TRUE
         ELSE /\ grid_ok' = FALSE
              /\ UNCHANGED <<children, col_widths>>
    /\ UNCHANGED <<grid_tracks, grid_width, column_gap>>

(***************************************************************************)
(* Windows text caches.  A cache is the set of its entries; "created" holds *)
(* the caches whose hashmap exists.  Text is measured with every character *)
(* of a face equally wide; strings are ASCII, so bytes, characters and     *)
(* wide characters count the same; the GDI calls succeed.  A style is its  *)
(* key (family, size, weight and flags) and the face select_face_name      *)
(* resolves its families list to; a face is named by the width of its      *)
(* characters.                                                             *)
(***************************************************************************)
NoFonts ==
    [font_cache |-> {}, font_gen |-> 0,
     split_cache |-> {}, split_gen |-> 0,
     wstr_cache |-> {}, wstr_gen |-> 0, wstr_total_bytes |-> 0,
     created |-> {}]

Min(a, b) == IF a <= b THEN a ELSE b

\* The entry a *_iter_oldest_cb iteration ends on: the smallest gen.
oldest(cache) == CHOOSE e \in cache : \A o \in cache : e.gen <= o.gen

RECURSIVE evict_oldest(_, _)
evict_oldest(cache, to_remove) ==
    IF to_remove <= 0 \/ cache = {} THEN cache
    ELSE evict_oldest(cache \ {oldest(cache)}, to_remove - 1)

\* An eviction that stops at the limit instead of three quarters of it.
cache_evict_to_limit(cache, limit) ==
    IF Cardinality(cache) <= limit THEN cache
    ELSE evict_oldest(cache, Cardinality(cache) - limit)

\* split_cache_evict_if_needed and font_cache_evict_if_needed: above the
\* limit, the oldest entries go until three quarters of the limit remain.
cache_evict_if_needed(cache, limit) ==
    IF Cardinality(cache) <= limit THEN cache
    ELSE evict_oldest(cache, Cardinality(cache) - ((limit * 3) \div 4))

\* wstr_cache_evict_if_needed
RECURSIVE wstr_cache_evict_if_needed(_)
wstr_cache_evict_if_needed(st) ==
    IF st.wstr_total_bytes > WSTR_CACHE_MAX_BYTES /\ "wstr" \in st.created
          /\ st.wstr_cache # {}
    THEN With(oldest(st.wstr_cache),
         LAMBDA ov :
            wstr_cache_evict_if_needed(
                [st EXCEPT !.wstr_cache = @ \ {ov},
                           !.wstr_total_bytes =
                                IF @ >= ov.bytes THEN @ - ov.bytes ELSE 0]))
    ELSE st

\* hashmap_create of the named cache; it fails when memory is exhausted.
hashmap_create(st, name, mem_ok) ==
    IF name \notin st.created /\ mem_ok
    THEN [st EXCEPT !.created = @ \cup {name}] ELSE st

\* get_cached_font
get_cached_font(st0, fstyle, mem_ok) ==
    With(hashmap_create(st0, "font", mem_ok),
    LAMBDA st :
        IF "font" \notin st.created THEN [st |-> st, font |-> "NULL"]
        ELSE IF \E e \in st.font_cache : e.fstyle = fstyle
        THEN [st |-> [st EXCEPT
                        !.font_cache = {IF e.fstyle = fstyle
                                        THEN [e EXCEPT !.gen = st.font_gen + 1]
                                        ELSE e : e \in @},
                        !.font_gen = @ + 1],
              font |-> "font"]
        ELSE IF mem_ok
        THEN [st |-> [st EXCEPT
                        !.font_cache = cache_evict_if_needed(
                            @ \cup {[fstyle |-> fstyle, gen |-> st.font_gen + 1]},
                            FONT_CACHE_MAX_ENTRIES),
                        !.font_gen = @ + 1],
              font |-> "font"]
        ELSE [st |-> st, font |-> "font"])

\* get_cached_wide; "dangling" tells that the entry just inserted was
\* evicted again, so that the string handed out is freed.
get_cached_wide(st0, utf8str, mem_ok) ==
    IF Len(utf8str) = 0
    THEN [st |-> st0, err |-> "NSERROR_OK", wclen |-> 0, dangling |-> FALSE]
    ELSE
    With(hashmap_create(st0, "wstr", mem_ok),
    LAMBDA st :
        IF "wstr" \notin st.created
        THEN [st |-> st, err |-> "NSERROR_NOMEM", wclen |-> 0, dangling |-> FALSE]
        ELSE IF \E e \in st.wstr_cache : e.str = utf8str
        THEN [st |-> [st EXCEPT
                        !.wstr_cache = {IF e.str = utf8str
                                        THEN [e EXCEPT !.gen = st.wstr_gen + 1]
                                        ELSE e : e \in @},
                        !.wstr_gen = @ + 1],
              err |-> "NSERROR_OK", wclen |-> Len(utf8str), dangling |-> FALSE]
        ELSE IF ~mem_ok
        THEN [st |-> st, err |-> "NSERROR_NOMEM", wclen |-> 0, dangling |-> FALSE]
        ELSE With(wstr_cache_evict_if_needed(
                    [st EXCEPT
                        !.wstr_cache = @ \cup {[str |-> utf8str, wclen |-> Len(utf8str),
                                                bytes |-> Len(utf8str) * 2,
                                                gen |-> st.wstr_gen + 1]},
                        !.wstr_gen = @ + 1,
                        !.wstr_total_bytes = @ + Len(utf8str) * 2]),
             LAMBDA st2 :
                [st |-> st2, err |-> "NSERROR_OK", wclen |-> Len(utf8str),
                 dangling |-> ~(\E e \in st2.wstr_cache : e.str = utf8str)]))

\* GetTextExtentPoint32W: the extent of n characters of a face.
text_extent(face, n) == n * face

\* GetTextExtentExPointW: the number of characters of a face that fit in x.
text_fit(face, x, wclen) == Min(x \div face, wclen)

\* win32_font_width; ub is what a measurement of freed memory yields.
win32_font_width(st0, fstyle, utf8str, env, ub) ==
    IF Len(utf8str) = 0 THEN [st |-> st0, err |-> "NSERROR_OK", width |-> 0]
    ELSE
    With(get_cached_wide(get_cached_font(st0, fstyle, env # "nomem").st, utf8str,
                         env # "nomem"),
    LAMBDA w :
        IF w.err # "NSERROR_OK" THEN [st |-> w.st, err |-> w.err, width |-> 0]
        ELSE [st |-> w.st, err |-> "NSERROR_OK",
              width |-> IF w.dangling THEN ub ELSE text_extent(fstyle.face, w.wclen)])

\* win32_font_position
win32_font_position(st0, fstyle, utf8str, x, env, ub) ==
    IF Len(utf8str) = 0 \/ x < 1
    THEN [st |-> st0, err |-> "NSERROR_OK", offset |-> 0, actual_x |-> 0]
    ELSE
    With(get_cached_wide(get_cached_font(st0, fstyle, env # "nomem").st, utf8str,
                         env # "nomem"),
    LAMBDA w :
        IF w.err # "NSERROR_OK"
        THEN [st |-> w.st, err |-> w.err, offset |-> 0, actual_x |-> 0]
        ELSE With(IF w.dangling THEN Min(ub, Len(utf8str))
                  ELSE text_fit(fstyle.face, x, w.wclen),
             LAMBDA fit :
                [st |-> w.st, err |-> "NSERROR_OK", offset |-> fit,
                 actual_x |-> text_extent(fstyle.face, fit)]))

\* A split point that is the position found, wherever it falls.
split_point_unaligned(string, c_off) == c_off

RECURSIVE scan_back(_, _)
scan_back(string, offset) ==
    IF string[offset + 1] # " " /\ offset > 0 THEN scan_back(string, offset - 1)
    ELSE offset

RECURSIVE scan_forward(_, _)
scan_forward(string, offset) ==
    IF offset < Len(string) /\ string[offset + 1] # " "
    THEN scan_forward(string, offset + 1)
    ELSE offset

\* The two scans of win32_font_split: back to a space, and when that reaches
\* the start of the string, forward to a space or the end.
split_point(string, c_off) ==
    IF scan_back(string, c_off) = 0 THEN scan_forward(string, c_off)
    ELSE scan_back(string, c_off)

\* hashmap_insert into the split cache, then split_cache_evict_if_needed.
split_cache_insert(st, key, offset, actual_x, mem_ok) ==
    IF "split" \in st.created /\ mem_ok
    THEN [st EXCEPT
            !.split_cache = cache_evict_if_needed(
                @ \cup {[fstyle |-> key.fstyle.key, x |-> key.x, str |-> key.str,
                         offset |-> offset, actual_x |-> actual_x,
                         gen |-> st.split_gen + 1]},
                SPLIT_CACHE_MAX_ENTRIES),
            !.split_gen = @ + 1]
    ELSE st

SplitResult(st, err, offset, actual_x, hit) ==
    [st |-> st, err |-> err, offset |-> offset, actual_x |-> actual_x, hit |-> hit]

\* win32_font_split after a miss, and without a split cache.
font_split_compute(st, key, env, ub) ==
    With(win32_font_position(st, key.fstyle, key.str, key.x, env, ub),
    LAMBDA p :
        IF p.err # "NSERROR_OK" THEN SplitResult(p.st, p.err, p.offset, p.actual_x, FALSE)
        ELSE IF p.offset = Len(key.str)
        THEN SplitResult(split_cache_insert(p.st, key, p.offset, p.actual_x, env # "nomem"),
                         "NSERROR_OK", p.offset, p.actual_x, FALSE)
        ELSE With(split_point(key.str, p.offset),
             LAMBDA offset :
                With(win32_font_width(p.st, key.fstyle, SubSeq(key.str, 1, offset), env, ub),
                LAMBDA w :
                    IF w.err = "NSERROR_OK"
                    THEN SplitResult(split_cache_insert(w.st, key, offset, w.width,
                                                        env # "nomem"),
                                     "NSERROR_OK", offset, w.width, FALSE)
                    ELSE SplitResult(w.st, w.err, offset, p.actual_x, FALSE))))

\* sc_key_eq: family, size, weight, flags, x, length and bytes are compared.
sc_key_eq(e, fstyle, x, string) ==
    e.fstyle = fstyle.key /\ e.x = x /\ e.str = string

\* win32_font_split
win32_font_split(st0, fstyle, string, x, env, ub) ==
    With(hashmap_create(st0, "split", env # "nomem"),
    LAMBDA st :
        IF \E e \in st.split_cache : sc_key_eq(e, fstyle, x, string)
        THEN With(CHOOSE e \in st.split_cache : sc_key_eq(e, fstyle, x, string),
             LAMBDA val :
                SplitResult([st EXCEPT
                                !.split_cache = (@ \ {val})
                                    \cup {[val EXCEPT !.gen = st.split_gen + 1]},
                                !.split_gen = @ + 1],
                            "NSERROR_OK", val.offset, val.actual_x, TRUE))
        ELSE font_split_compute(st, [fstyle |-> fstyle, x |-> x, str |-> string], env, ub))

\* win32_font_caches_flush
win32_font_caches_flush(st) ==
    [st EXCEPT !.split_cache = {}, !.wstr_cache = {},
               !.created = @ \ {"split", "wstr"},
               !.wstr_total_bytes = 0, !.wstr_gen = 0, !.split_gen = 0]

Style(key, face) == [key |-> key, face |-> face]
NoStyle     == Style(0, 0)
FontStyles  == {Style(k, 1) : k \in 1..FONT_CACHE_MAX_ENTRIES} \cup {Style(1, 2)}
FontStrings == {<<>>, <<" ", "a">>, <<"a", " ">>, <<"a", " ", "a">>}
FontWidths  == 0..2
FontEnvs    == {"ok", "nomem"}

NoFontCall ==
    [call |-> "none", fstyle |-> NoStyle, str |-> <<>>, x |-> 0, err |-> "NSERROR_OK",
     offset |-> 0, actual_x |-> 0, hit |-> FALSE, before |-> NoFonts]

FontIdle ==
    /\ fonts = NoFonts
    /\ font_last = NoFontCall
    /\ font_calls = 0

FontCalled(call, fstyle, str, x, r, offset, actual_x, hit) ==
    /\ font_calls' = font_calls + 1
    /\ fonts' = r.st
    /\ font_last' = [call |-> call, fstyle |-> fstyle, str |-> str, x |-> x,
                     err |-> r.err, offset |-> offset, actual_x |-> actual_x,
                     hit |-> hit, before |-> fonts]

FontSplit ==
    /\ font_calls < MaxCalls
    /\ \E fstyle \in FontStyles, str \in FontStrings, x \in FontWidths,
       env \in FontEnvs :
        \E ub \in 0..Len(str) : \E r \in {win32_font_split(fonts, fstyle, str, x, env, ub)} :
            FontCalled("split", fstyle, str, x, r, r.offset, r.actual_x, r.hit)

FontWidth ==
    /\ font_calls < MaxCalls
    /\ \E fstyle \in FontStyles, str \in FontStrings, env \in FontEnvs :
        \E ub \in 0..Len(str) : \E r \in {win32_font_width(fonts, fstyle, str, env, ub)} :
            FontCalled("width", fstyle, str, 0, r, 0, r.width, FALSE)

\* html_font_face_load_data of the Windows front end: the split and wide
\* string caches are flushed when the font was added.
FontLoadData ==
    /\ font_calls < MaxCalls
    /\ \E added \in BOOLEAN :
        FontCalled("load", NoStyle, <<>>, 0,
                   [st  |-> IF added THEN win32_font_caches_flush(fonts) ELSE fonts,
                    err |-> IF added THEN "NSERROR_OK" ELSE "NSERROR_INVALID"],
                   0, 0, FALSE)

(***************************************************************************)
(* Web fonts: download slots, the list of loaded families and the          *)
(* availability query.                                                     *)
(***************************************************************************)
\* The family_name of a list entry whose strdup returned NULL.
NullName == "(null)"

FamilyNames == {"", "Inter", "inter", "Mono"}

\* The folding strcasecmp applies to both of its arguments.
tolower(name) ==
    CASE name = "Inter" -> "inter"
      [] name = "Mono"  -> "mono"
      [] OTHER          -> name

strcasecmp_equal(a, b) == tolower(a) = tolower(b)

\* The scan of loaded_fonts in html_font_face_is_available and in
\* mark_font_loaded.  strcasecmp on an entry without a name is undefined:
\* ub is what the scan then yields.
RECURSIVE family_listed(_, _, _)
family_listed(list, family_name, ub) ==
    IF list = <<>> THEN FALSE
    ELSE IF Head(list) = NullName THEN ub
    ELSE IF strcasecmp_equal(Head(list), family_name) THEN TRUE
    ELSE family_listed(Tail(list), family_name, ub)

\* html_font_face_is_available
html_font_face_is_available(list, family_name, ub) ==
    family_listed(list, family_name, ub)

\* mark_font_loaded
mark_font_loaded(list, family_name, malloc_ok, strdup_ok, ub) ==
    IF family_listed(list, family_name, ub) THEN list
    ELSE IF ~malloc_ok THEN list
    ELSE <<IF strdup_ok THEN family_name ELSE NullName>> \o list

FreeSlot == [in_use |-> FALSE, family_name |-> NullName, handle |-> "NULL"]

\* find_free_slot: the first slot not in use, 0 when there is none.
find_free_slot(slots) ==
    IF \E i \in 1..Len(slots) : ~slots[i].in_use
    THEN CHOOSE i \in 1..Len(slots) :
            /\ ~slots[i].in_use
            /\ \A j \in 1..(i - 1) : slots[j].in_use
    ELSE 0

FetchResult(slots, err, dl) == [slots |-> slots, err |-> err, dl |-> dl]

\* A fetch_font_url that leaves the slot marked when the fetch is refused.
fetch_font_url_keeping_slot(slots, family_name, outcome) ==
    IF find_free_slot(slots) = 0 THEN FetchResult(slots, "NSERROR_NOMEM", 0)
    ELSE FetchResult([slots EXCEPT ![find_free_slot(slots)] =
                        [in_use |-> TRUE, family_name |-> family_name,
                         handle |-> IF outcome = "started" THEN "handle" ELSE "NULL"]],
                     IF outcome = "started" THEN "NSERROR_OK" ELSE "NSERROR_NOMEM",
                     find_free_slot(slots))

\* fetch_font_url.  outcome tells how the calls it makes end: strdup fails
\* ("strdup"), llcache_handle_retrieve refuses ("refused"), or the fetch is
\* started ("started").  dl is the slot taken.
fetch_font_url(slots, family_name, outcome) ==
    IF find_free_slot(slots) = 0 THEN FetchResult(slots, "NSERROR_NOMEM", 0)
    ELSE IF outcome = "strdup" THEN FetchResult(slots, "NSERROR_NOMEM", 0)
    ELSE IF outcome = "refused" THEN FetchResult(slots, "NSERROR_INVALID", 0)
    ELSE FetchResult([slots EXCEPT ![find_free_slot(slots)] =
                        [in_use |-> TRUE, family_name |-> family_name,
                         handle |-> "handle"]],
                     "NSERROR_OK", find_free_slot(slots))

FetchOutcomes == {"strdup", "refused", "started"}

\* The sources of one @font-face rule, each with the outcome its fetch
\* would have.
FaceSources == UNION {[1..n -> FetchOutcomes] : n \in 0..2}

\* The loop of html_font_face_process over the sources: the fetches are
\* tried in order until one is started; the result is that of the last
\* fetch_font_url call.
RECURSIVE fetch_sources(_, _, _, _)
fetch_sources(slots, family_name, srcs, last) ==
    IF srcs = <<>> THEN last
    ELSE With(fetch_font_url(slots, family_name, Head(srcs)),
         LAMBDA r :
            IF r.err = "NSERROR_OK"
            THEN [slots |-> r.slots, err |-> r.err, dl |-> r.dl, called |-> TRUE]
            ELSE fetch_sources(r.slots, family_name, Tail(srcs),
                    [slots |-> r.slots, err |-> r.err, dl |-> r.dl, called |-> TRUE]))

NoQuery == [queried |-> FALSE, family_name |-> "", result |-> FALSE, loaded |-> FALSE]

NoFetch == [called |-> FALSE, err |-> "NSERROR_OK", family_name |-> "",
            before |-> <<>>, after |-> <<>>]

FaceIdle ==
    /\ font_downloads = [i \in 1..MAX_FONT_DOWNLOADS |-> FreeSlot]
    /\ loaded_fonts = <<>>
    /\ face_done = {}
    /\ face_last = NoQuery
    /\ face_flight = {}
    /\ face_fetch = NoFetch
    /\ face_steps = 0

FaceStep ==
    /\ face_steps < MaxFaceSteps
    /\ face_steps' = face_steps + 1

\* html_font_face_process: a family already available is skipped, any other
\* is fetched from the first source whose fetch starts.
html_font_face_process ==
    /\ FaceStep
    /\ \E family_name \in FamilyNames, srcs \in FaceSources, ub \in BOOLEAN :
        \E r \in {IF html_font_face_is_available(loaded_fonts, family_name, ub)
                  THEN [slots |-> font_downloads, err |-> "NSERROR_OK", dl |-> 0,
                        called |-> FALSE]
                  ELSE fetch_sources(font_downloads, family_name, srcs,
                            [slots |-> font_downloads, err |-> "NSERROR_OK",
                             dl |-> 0, called |-> FALSE])} :
            /\ font_downloads' = r.slots
            /\ face_flight' = IF r.dl # 0 /\ r.err = "NSERROR_OK"
                              THEN face_flight \cup {r.dl} ELSE face_flight
            /\ face_fetch' = IF r.called
                             THEN [called |-> TRUE, err |-> r.err,
                                   family_name |-> family_name,
                                   before |-> font_downloads, after |-> r.slots]
                             ELSE NoFetch
    /\ UNCHANGED <<loaded_fonts, face_done, face_last>>
    /\ UNCHANGED fontVars

\* font_fetch_callback on the fetch in flight in slot i.  A DONE event with
\* data hands the data to html_font_face_load_data, which flushes the text
\* caches when it returns NSERROR_OK; DONE and ERROR release the slot, any
\* other event leaves it.
font_fetch_callback ==
    /\ FaceStep
    /\ \E i \in face_flight :
        \E event \in {"LLCACHE_EVENT_DONE", "LLCACHE_EVENT_ERROR",
                      "LLCACHE_EVENT_HAD_DATA"},
           has_data \in BOOLEAN,
           err \in {"NSERROR_OK", "NSERROR_INVALID", "NSERROR_NOT_IMPLEMENTED"},
           malloc_ok \in BOOLEAN, strdup_ok \in BOOLEAN, ub \in BOOLEAN :
            /\ IF event = "LLCACHE_EVENT_DONE" /\ has_data /\ err = "NSERROR_OK"
               THEN /\ loaded_fonts' = mark_font_loaded(loaded_fonts,
                                            font_downloads[i].family_name,
                                            malloc_ok, strdup_ok, ub)
                    /\ face_done' = face_done
                                      \cup {tolower(font_downloads[i].family_name)}
                    /\ fonts' = win32_font_caches_flush(fonts)
               ELSE UNCHANGED <<loaded_fonts, face_done, fonts>>
            /\ IF event \in {"LLCACHE_EVENT_DONE", "LLCACHE_EVENT_ERROR"}
               THEN /\ font_downloads' = [font_downloads EXCEPT ![i] = FreeSlot]
                    /\ face_flight' = face_flight \ {i}
               ELSE UNCHANGED <<font_downloads, face_flight>>
    /\ UNCHANGED <<face_last, face_fetch, font_last, font_calls>>

\* A caller asks html_font_face_is_available.
FaceQuery ==
    /\ FaceStep
    /\ \E family_name \in FamilyNames, ub \in BOOLEAN :
        face_last' = [queried |-> TRUE, family_name |-> family_name,
                      result |-> html_font_face_is_available(loaded_fonts,
                                                             family_name, ub),
                      loaded |-> tolower(family_name) \in face_done]
    /\ UNCHANGED <<font_downloads, loaded_fonts, face_done, face_flight, face_fetch>>
    /\ UNCHANGED fontVars

(***************************************************************************)
(* Specifications.                                                         *)
(***************************************************************************)
SpecFlexInit == FlexInit /\ ItemIdle /\ GridIdle /\ FontIdle /\ FaceIdle
    /\ StackInit /\ BoxIdle /\ CasIdle /\ ComposeIdle /\ ParseIdle
SpecFlexNext ==
    \/ FlexClamp /\ UNCHANGED <<itemVars, gridVars, fontVars, faceVars, stackVars,
                                boxVars, casVars, cmpVars, parseVars>>
SpecFlex == SpecFlexInit /\ [][SpecFlexNext]_vars

SpecItemInit == ItemInit /\ FlexIdle /\ GridIdle /\ FontIdle /\ FaceIdle
    /\ StackInit /\ BoxIdle /\ CasIdle /\ ComposeIdle /\ ParseIdle
SpecItemNext ==
    \/ FlexBaseSize /\ UNCHANGED <<flexVars, gridVars, fontVars, faceVars, stackVars,
                                   boxVars, casVars, cmpVars, parseVars>>
    \/ FlexItemLayout /\ UNCHANGED <<flexVars, gridVars, fontVars, faceVars, stackVars,
                                     boxVars, casVars, cmpVars, parseVars>>
    \/ FlexBasisZero /\ UNCHANGED <<flexVars, gridVars, fontVars, faceVars, stackVars,
                                    boxVars, casVars, cmpVars, parseVars>>
    \/ FlexPreserveHeight /\ UNCHANGED <<flexVars, gridVars, fontVars, faceVars, stackVars,
                                         boxVars, casVars, cmpVars, parseVars>>
    \/ FlexResolveLine /\ UNCHANGED <<flexVars, gridVars, fontVars, faceVars, stackVars,
                                      boxVars, casVars, cmpVars, parseVars>>
SpecItem == SpecItemInit /\ [][SpecItemNext]_vars

SpecGridInit == GridInit /\ FlexIdle /\ ItemIdle /\ FontIdle /\ FaceIdle
    /\ StackInit /\ BoxIdle /\ CasIdle /\ ComposeIdle /\ ParseIdle
SpecGridNext ==
    \/ layout_grid /\ UNCHANGED <<flexVars, itemVars, fontVars, faceVars, stackVars,
                                  boxVars, casVars, cmpVars, parseVars>>
SpecGrid == SpecGridInit /\ [][SpecGridNext]_vars

SpecFontInit == FontIdle /\ FlexIdle /\ ItemIdle /\ GridIdle /\ FaceIdle
    /\ StackInit /\ BoxIdle /\ CasIdle /\ ComposeIdle /\ ParseIdle
SpecFontNext ==
    \/ FontSplit /\ UNCHANGED <<flexVars, itemVars, gridVars, faceVars, stackVars,
                                boxVars, casVars, cmpVars, parseVars>>
    \/ FontWidth /\ UNCHANGED <<flexVars, itemVars, gridVars, faceVars, stackVars,
                                boxVars, casVars, cmpVars, parseVars>>
    \/ FontLoadData /\ UNCHANGED <<flexVars, itemVars, gridVars, faceVars, stackVars,
                                   boxVars, casVars, cmpVars, parseVars>>
SpecFont == SpecFontInit /\ [][SpecFontNext]_vars

SpecFaceInit == FaceIdle /\ FlexIdle /\ ItemIdle /\ GridIdle /\ FontIdle
    /\ StackInit /\ BoxIdle /\ CasIdle /\ ComposeIdle /\ ParseIdle
SpecFaceNext ==
    \/ html_font_face_process /\ UNCHANGED <<flexVars, itemVars, gridVars, stackVars, boxVars,
                                             casVars, cmpVars, parseVars>>
    \/ font_fetch_callback /\ UNCHANGED <<flexVars, itemVars, gridVars, stackVars, boxVars,
                                          casVars, cmpVars, parseVars>>
    \/ FaceQuery /\ UNCHANGED <<flexVars, itemVars, gridVars, stackVars, boxVars,
                                casVars, cmpVars, parseVars>>
SpecFace == SpecFaceInit /\ [][SpecFaceNext]_vars

SpecStackInit == StackInit /\ FlexIdle /\ ItemIdle /\ GridIdle /\ FontIdle
    /\ FaceIdle /\ BoxIdle /\ CasIdle /\ ComposeIdle /\ ParseIdle
SpecStackNext ==
    \/ StackAdd /\ UNCHANGED <<flexVars, itemVars, gridVars, fontVars, faceVars,
                               boxVars, casVars, cmpVars, parseVars>>
    \/ stacking_context_sort /\ UNCHANGED <<flexVars, itemVars, gridVars, fontVars, faceVars,
                                            boxVars, casVars, cmpVars, parseVars>>
SpecStack == SpecStackInit /\ [][SpecStackNext]_vars

SpecBoxInit == BoxInit /\ FlexIdle /\ ItemIdle /\ GridIdle /\ FontIdle /\ FaceIdle
    /\ StackInit /\ CasIdle /\ ComposeIdle /\ ParseIdle
SpecBoxNext ==
    \/ box_image /\ UNCHANGED <<flexVars, itemVars, gridVars, fontVars, faceVars,
                                stackVars, casVars, cmpVars, parseVars>>
    \/ ObjectEvent /\ UNCHANGED <<flexVars, itemVars, gridVars, fontVars, faceVars,
                                  stackVars, casVars, cmpVars, parseVars>>
SpecBox == SpecBoxInit /\ [][SpecBoxNext]_vars

SpecCascadeInit == CasInit /\ FlexIdle /\ ItemIdle /\ GridIdle /\ FontIdle
    /\ FaceIdle /\ StackInit /\ BoxIdle /\ ComposeIdle /\ ParseIdle
SpecCascadeNext ==
    \/ CascadeDecl /\ UNCHANGED <<flexVars, itemVars, gridVars, fontVars, faceVars,
                                  stackVars, boxVars, cmpVars, parseVars>>
    \/ CascadeMisread /\ UNCHANGED <<flexVars, itemVars, gridVars, fontVars, faceVars,
                                     stackVars, boxVars, cmpVars, parseVars>>
SpecCascade == SpecCascadeInit /\ [][SpecCascadeNext]_vars

SpecComposeInit == ComposeInit /\ FlexIdle /\ ItemIdle /\ GridIdle /\ FontIdle
    /\ FaceIdle /\ StackInit /\ BoxIdle /\ CasIdle /\ ParseIdle
SpecComposeNext ==
    \/ Compose /\ UNCHANGED <<flexVars, itemVars, gridVars, fontVars, faceVars,
                              stackVars, boxVars, casVars, parseVars>>
    \/ Copy /\ UNCHANGED <<flexVars, itemVars, gridVars, fontVars, faceVars,
                           stackVars, boxVars, casVars, parseVars>>
    \/ Destroy /\ UNCHANGED <<flexVars, itemVars, gridVars, fontVars, faceVars,
                              stackVars, boxVars, casVars, parseVars>>
SpecCompose == SpecComposeInit /\ [][SpecComposeNext]_vars

SpecParseInit == ParseInit /\ FlexIdle /\ ItemIdle /\ GridIdle /\ FontIdle
    /\ FaceIdle /\ StackInit /\ BoxIdle /\ CasIdle /\ ComposeIdle
SpecParseNext ==
    \/ ParseGap /\ UNCHANGED <<flexVars, itemVars, gridVars, fontVars, faceVars,
                               stackVars, boxVars, casVars, cmpVars>>
    \/ ParseGridArea /\ UNCHANGED <<flexVars, itemVars, gridVars, fontVars, faceVars,
                                    stackVars, boxVars, casVars, cmpVars>>
    \/ ParseGridTemplateRows /\ UNCHANGED <<flexVars, itemVars, gridVars, fontVars, faceVars,
                                            stackVars, boxVars, casVars, cmpVars>>
    \/ ParseTransform /\ UNCHANGED <<flexVars, itemVars, gridVars, fontVars, faceVars,
                                     stackVars, boxVars, casVars, cmpVars>>
    \/ ParseBackgroundImage /\ UNCHANGED <<flexVars, itemVars, gridVars, fontVars, faceVars,
                                           stackVars, boxVars, casVars, cmpVars>>
    \/ ParsePlaceContent /\ UNCHANGED <<flexVars, itemVars, gridVars, fontVars, faceVars,
                                        stackVars, boxVars, casVars, cmpVars>>
SpecParse == SpecParseInit /\ [][SpecParseNext]_vars

(***************************************************************************)
(* Claims.                                                                 *)
(***************************************************************************)

\* C2: a box whose REPLACE_DIM flag was set at construction keeps the flag
\* and its x, y, width and height through every sequence of resource events
\* (DONE or ERROR), and no full box-tree rebuild is triggered.
C2_DimensionKnownStands ==
    (box_pc = "built" /\ built.flags) => (box = built /\ rebuilds = 0)

\* An image with width=200 height=150 whose fetch failed, after several
\* events, still 200 x 150.
C2_Witness ==
    /\ box_pc = "built"
    /\ built.flags
    /\ events >= 2
    /\ fetch = "error"
    /\ box.width = AttrWidth
    /\ box.height = AttrHeight

C9_SortAscendingStable ==
    sorted =>
        \A i, j \in 1..Len(entries) :
            /\ (i < j => entries[i].z_index <= entries[j].z_index)
            /\ (i < j /\ entries[i].z_index = entries[j].z_index
                    => entries[i].box < entries[j].box)
            /\ (entries[i].z_index < 0 /\ entries[j].z_index >= 0 => i < j)

\* A sorted context in which the sort moved an entry, with a tie and with
\* negative and non-negative entries.
C9_Witness ==
    /\ sorted
    /\ Len(entries) >= 3
    /\ entries[1].box # 1
    /\ \E i, j \in 1..Len(entries) :
            i < j /\ entries[i].z_index = entries[j].z_index
    /\ \E i, j \in 1..Len(entries) :
            entries[i].z_index < 0 /\ entries[j].z_index >= 0

\* C10: an AUTO width resolves to the calculated width clamped by max-width
\* first (when max-width >= 0) and by min-width second (when min-width > 0):
\* the result is never below an applicable min-width, it is never above an
\* applicable max-width unless min-width forces it, an in-range calculated
\* width is kept, and when min-width > max-width the result is min-width.
C10_ClampMaxThenMin ==
    flex_pc = "clamped" =>
        /\ (min_width > 0 => width >= min_width)
        /\ (max_width >= 0 /\ ~(min_width > 0 /\ min_width > max_width)
                => width <= max_width)
        /\ ((max_width < 0 \/ calculated_width <= max_width)
             /\ (min_width <= 0 \/ calculated_width >= min_width)
                => width = calculated_width)
        /\ (max_width >= 0 /\ min_width > 0 /\ min_width > max_width
                => width = min_width)

\* A contradictory pair (min-width > max-width) with the calculated width
\* above both, resolved to min-width.
C10_Witness ==
    /\ flex_pc = "clamped"
    /\ max_width >= 0
    /\ min_width > max_width
    /\ calculated_width > min_width
    /\ width = min_width

ListCascades == {CSS_PROP("grid_template_columns"), CSS_PROP("grid_template_rows"),
                 CSS_PROP("transform")}

\* C4: when css__cascade_grid_template_columns, css__cascade_grid_template_rows
\* or css__cascade_transform returns an error, the read cursor of the style
\* is where it was before the call and state->computed is unchanged.
C4_ErrorRestoresCursor ==
    (cas_last.op \in ListCascades /\ cas_last.err # "CSS_OK")
        => (style = cas_last.entry /\ computed = cas_last.before)

\* C5: a cascade function writes into state->computed only when
\* css__outranks_existing returned true; when it returned false the computed
\* style is as it was before the call and the function returned CSS_OK.
C5_WritesOnlyWhenOutranking ==
    /\ cas_last.outranks = "false"
            => (computed = cas_last.before /\ cas_last.err = "CSS_OK")
    /\ computed # cas_last.before => cas_last.outranks = "true"

\* A track list of lower rank was decoded, and dropped, over a value set by
\* a declaration of higher rank.
C5_Witness ==
    /\ cas_steps = 2
    /\ cas_last.outranks = "false"
    /\ cas_last.op = CSS_PROP("grid_template_columns")
    /\ ~hasFlagValue(cas_last.opv)
    /\ getValue(cas_last.opv) = GRID_TEMPLATE.SET
    /\ computed["grid_template_columns"].type = "CSS_GRID_TEMPLATE_NONE"

\* C6: after a compose or a copy of a list-valued property into a different
\* style, no track array or transform-function array is referenced by two
\* computed styles, and destroying a style frees no list that another style
\* still holds.
C6_ListsNotShared ==
    /\ \A s \in Styles \ destroyed : \A t \in Styles \ (destroyed \cup {s}) :
         \A p \in ListProps : \A q \in ListProps :
            styles[s][p].ptr # NullPtr => styles[s][p].ptr # styles[t][q].ptr
    /\ \A s \in Styles \ destroyed : \A p \in ListProps :
            styles[s][p].ptr # NullPtr => styles[s][p].ptr \in live
    /\ ~freed_twice

\* C1: whenever css__parse_gap, css__parse_grid_area,
\* css__parse_grid_template_rows, css__parse_transform or
\* css__parse_background_image returns CSS_INVALID, *ctx has the value it
\* had on entry, for every token vector and every starting cursor.
C1_InvalidLeavesCursor ==
    (parse_pc = "done" /\ parse_err = "CSS_INVALID") => cursor = entry_ctx

\* css__parse_transform read and emitted a whole function from a cursor
\* that was not the start of the vector, and then rejected the value.
C1_Witness ==
    /\ parse_pc = "done"
    /\ parse_err = "CSS_INVALID"
    /\ prop_name = "transform"
    /\ entry_ctx = 1
    /\ Len(emitted) > 2
    /\ cursor = entry_ctx

\* The cursor after the ')' that closes a block opened before ctx, every
\* function and every '(' inside opening a block of its own; -1 when the
\* tokens end first.
RECURSIVE closing_parenthesis(_, _, _)
closing_parenthesis(v, c, depth) ==
    IF depth = 0 THEN c
    ELSE IF c >= Len(v) THEN -1
    ELSE IF v[c + 1].type = "FUNCTION" \/ tokenIsChar(v[c + 1], "(")
    THEN closing_parenthesis(v, c + 1, depth + 1)
    ELSE IF tokenIsChar(v[c + 1], ")")
    THEN closing_parenthesis(v, c + 1, depth - 1)
    ELSE closing_parenthesis(v, c + 1, depth)

\* C7: for a value that is a linear-gradient( or radial-gradient( function
\* whose closing parenthesis is present, css__parse_background_image returns
\* CSS_OK, leaves *ctx just after that parenthesis and emits exactly one
\* opcode, of value BACKGROUND_IMAGE.NONE; when the closing parenthesis is
\* missing it returns CSS_INVALID with *ctx unchanged.
C7_GradientSkipped ==
    ( /\ parse_pc = "done"
      /\ prop_name = "background_image"
      /\ mem = -1
      /\ entry_ctx < Len(tokens)
      /\ tokens[entry_ctx + 1].type = "FUNCTION"
      /\ tokens[entry_ctx + 1].data \in {"linear-gradient", "radial-gradient"} )
    => IF closing_parenthesis(tokens, entry_ctx + 1, 1) >= 0
       THEN /\ parse_err = "CSS_OK"
            /\ cursor = closing_parenthesis(tokens, entry_ctx + 1, 1)
            /\ emitted = <<buildOPV(CSS_PROP("background_image"), 0,
                                    BACKGROUND_IMAGE.NONE)>>
       ELSE /\ parse_err = "CSS_INVALID"
            /\ cursor = entry_ctx

\* C11: after growth/shrink distribution and clamping, an item whose
\* max-width and min-width are both defined has min-width <= width <=
\* max-width when the pair is consistent (min-width <= max-width), and in a
\* contradictory pair (min-width > max-width) min-width is honored: the
\* width is min-width.
C11_ClampWithinBounds ==
    (flex_pc = "clamped" /\ max_width >= 0 /\ min_width > 0) =>
        /\ (min_width <= max_width => (min_width <= width /\ width <= max_width))
        /\ (min_width > max_width => width = min_width)

\* A contradictory pair with the calculated width below both bounds.
C11_Witness ==
    /\ flex_pc = "clamped"
    /\ max_width >= 0
    /\ min_width > max_width
    /\ calculated_width < max_width
    /\ width = min_width

\* C11 as stated: with both bounds defined the width is within them, and in
\* a contradictory pair max-width is honored over min-width.
C11_MaxHonoredOverMin ==
    (flex_pc = "clamped" /\ max_width >= 0 /\ min_width > 0) =>
        /\ (min_width <= max_width => (min_width <= width /\ width <= max_width))
        /\ (min_width > max_width => width = max_width)

\* The basis of the item is deferred to content: flex-basis auto, or a zero
\* basis along the main axis of a column container.
DeferredBasis ==
    \/ css_flex_basis_auto # 0
    \/ (is_horizontal = 0 /\ css_flex_basis_auto = 0 /\ basis_px = 0)

C13_ZeroBasisDeferredInColumnOnly ==
    item_pc = "basis" =>
        /\ (item_result = 1 <=> (is_horizontal = 0 /\ basis_px = 0))
        /\ (is_horizontal # 0 /\ basis_px = 0 => item_result = 0)
        /\ (is_horizontal = 0 /\ basis_px # 0 => item_result = 0)

\* A zero basis in a row container, not deferred.
C13_Witness ==
    /\ item_pc = "basis"
    /\ is_horizontal = 1
    /\ basis_px = 0
    /\ item_result = 0

\* C14: the available main size of a line is the container's main size when
\* that is definite, and the sum of the items' base sizes when it is AUTO,
\* never INT_MAX.
C14_IndefiniteMainIsSumOfBases ==
    item_pc = "line" =>
        /\ (available_main = AUTO =>
                /\ item_result = line_main_size(line_items)
                /\ item_result # INT_MAX)
        /\ (available_main # AUTO => item_result = available_main)

\* An indefinite container with two items of non-zero base size.
C14_Witness ==
    /\ item_pc = "line"
    /\ available_main = AUTO
    /\ Len(line_items) = 2
    /\ line_items[1] > 0 /\ line_items[2] > 0
    /\ item_result = line_items[1] + line_items[2]

\* C15: the height is preserved from the stretched cross value exactly when
\* it is definite and the container is a row container; for a column
\* container it is never preserved.
C15_PreserveHeightInRowOnly ==
    item_pc = "preserve" =>
        /\ (item_result = 1 <=> (height_definite # 0 /\ is_horizontal # 0))
        /\ (is_horizontal = 0 => item_result = 0)

\* A column container of definite height: not preserved.
C15_Witness ==
    /\ item_pc = "preserve"
    /\ is_horizontal = 0
    /\ height_definite = 1
    /\ item_result = 0

\* The tracks of the container that are flexible.
FrTracks == {i \in 1..Len(grid_tracks) : grid_tracks[i].unit = "CSS_UNIT_FR"}

\* What is left of the container after the fixed and percentage tracks and
\* the gaps.
GridRemainder ==
    grid_width - tracks_total(grid_tracks, grid_width, FALSE)
               - column_gap * (Len(grid_tracks) - 1)

RECURSIVE SumTo(_, _)
SumTo(f, n) == IF n = 0 THEN 0 ELSE f[n] + SumTo(f, n - 1)

\* C16: a fixed or percentage track has its own size whatever the flexible
\* tracks are; each flexible track has the share of the remainder that is
\* proportional to its multiplier (rounded down), and 0 when the remainder is
\* not positive; three 1fr columns without gap in a 300px container are 100px
\* each; when the fixed tracks and gaps fit, the widths and gaps sum to no
\* more than the container.
C16_FlexibleTracksShareRemainder ==
    (grid_pc = "done" /\ grid_ok) =>
        /\ Len(col_widths) = Len(grid_tracks)
        /\ \A i \in 1..Len(grid_tracks) : i \notin FrTracks =>
                col_widths[i] = fixed_track_size(grid_tracks[i], grid_width)
        /\ \A i \in FrTracks :
                IF GridRemainder > 0
                THEN LET total == tracks_total(grid_tracks, grid_width, TRUE)
                     IN  /\ col_widths[i] * total <= GridRemainder * grid_tracks[i].value
                         /\ (col_widths[i] + 1) * total > GridRemainder * grid_tracks[i].value
                ELSE col_widths[i] = 0
        /\ (grid_tracks = [i \in 1..3 |-> Track(INTTOFIX(1), "CSS_UNIT_FR")]
                /\ column_gap = 0 /\ grid_width = GRID_WIDTH)
            => col_widths = <<100, 100, 100>>
        /\ GridRemainder >= 0 =>
                SumTo(col_widths, Len(col_widths))
                    + column_gap * (Len(grid_tracks) - 1) <= grid_width

\* The scenario: three 1fr columns, no gap, 300px.
C16_Witness ==
    /\ grid_pc = "done" /\ grid_ok
    /\ grid_tracks = [i \in 1..3 |-> Track(INTTOFIX(1), "CSS_UNIT_FR")]
    /\ column_gap = 0
    /\ grid_width = GRID_WIDTH
    /\ col_widths = <<100, 100, 100>>

GridRow(i) == (i - 1) \div Len(grid_tracks)
GridCol(i) == (i - 1) % Len(grid_tracks)

Evicted(before, after, SameKey(_, _)) ==
    {b \in before : ~(\E a \in after : SameKey(a, b))}

\* An eviction of a counted cache: three quarters of the limit remain, and
\* every entry removed is older than every entry kept.
EvictedOldest(before, after, limit, SameKey(_, _)) ==
    Evicted(before, after, SameKey) # {} =>
        /\ Cardinality(after) = (limit * 3) \div 4
        /\ \A b \in Evicted(before, after, SameKey) :
               \A a \in after : b.gen < a.gen

SameSplitKey(a, b) == a.fstyle = b.fstyle /\ a.x = b.x /\ a.str = b.str
SameFontKey(a, b)  == a.fstyle = b.fstyle

\* C18: after every call of win32_font_split or win32_font_width (and the
\* get_cached_font inside them) the split cache holds at most
\* SPLIT_CACHE_MAX_ENTRIES entries, the font cache at most
\* FONT_CACHE_MAX_ENTRIES entries and wstr_total_bytes is at most
\* WSTR_CACHE_MAX_BYTES; an insertion into a full counted cache removes the
\* entries with the smallest generation counters until three quarters of the
\* limit remain.
C18_CachesBounded ==
    font_last.call \in {"split", "width"} =>
        /\ Cardinality(fonts.split_cache) <= SPLIT_CACHE_MAX_ENTRIES
        /\ Cardinality(fonts.font_cache) <= FONT_CACHE_MAX_ENTRIES
        /\ fonts.wstr_total_bytes <= WSTR_CACHE_MAX_BYTES
        /\ EvictedOldest(font_last.before.split_cache, fonts.split_cache,
                         SPLIT_CACHE_MAX_ENTRIES, SameSplitKey)
        /\ EvictedOldest(font_last.before.font_cache, fonts.font_cache,
                         FONT_CACHE_MAX_ENTRIES, SameFontKey)
        /\ (/\ Cardinality(font_last.before.split_cache) = SPLIT_CACHE_MAX_ENTRIES
            /\ fonts.split_gen # font_last.before.split_gen
            /\ ~font_last.hit)
           => Evicted(font_last.before.split_cache, fonts.split_cache, SameSplitKey) # {}
        /\ (/\ Cardinality(font_last.before.font_cache) = FONT_CACHE_MAX_ENTRIES
            /\ \E a \in fonts.font_cache :
                  ~(\E b \in font_last.before.font_cache : SameFontKey(a, b)))
           => Evicted(font_last.before.font_cache, fonts.font_cache, SameFontKey) # {}

\* A split that was inserted into a full split cache and a full font cache,
\* evicting the oldest entries of both.
C18_Witness ==
    /\ font_last.call = "split"
    /\ Cardinality(font_last.before.split_cache) = SPLIT_CACHE_MAX_ENTRIES
    /\ Evicted(font_last.before.split_cache, fonts.split_cache, SameSplitKey) # {}
    /\ Evicted(font_last.before.font_cache, fonts.font_cache, SameFontKey) # {}
    /\ Cardinality(fonts.wstr_cache) < Cardinality(font_last.before.wstr_cache) + 1
    /\ fonts.wstr_cache # {}

\* The exit condition of win32_font_split on an offset.
SplitAligned(string, offset) ==
    \/ offset = 0
    \/ offset = Len(string)
    \/ (offset < Len(string) /\ string[offset + 1] = " ")

\* C20: when win32_font_split returns NSERROR_OK, the offset it reports is
\* 0, or the length of the string, or the index of a space in it, both when
\* the result was computed and when it was served from the split cache.
C20_SplitOffsetAligned ==
    (font_last.call = "split" /\ font_last.err = "NSERROR_OK") =>
        /\ SplitAligned(font_last.str, font_last.offset)
        /\ \A e \in fonts.split_cache : SplitAligned(e.str, e.offset)

\* A split served from the cache that reports a space inside the string.
C20_Witness ==
    /\ font_last.call = "split"
    /\ font_last.err = "NSERROR_OK"
    /\ font_last.hit
    /\ font_last.offset > 0
    /\ font_last.offset < Len(font_last.str)
    /\ font_last.str[font_last.offset + 1] = " "

\* C19: html_font_face_is_available(name) returns true if and only if a font
\* fetch for a family equal to name ignoring case delivered a DONE event with
\* data and html_font_face_load_data returned NSERROR_OK for it; so a name never
\* loaded is not available, a fetch ending in ERROR makes nothing available,
\* and a family once available stays available.
C19_AvailableIffLoaded ==
    face_last.queried => (face_last.result <=> face_last.loaded)

\* The index of the first ")" at or after ctx, the length of the vector when
\* there is none.
RECURSIVE closing_paren(_, _)
closing_paren(vector, ctx) ==
    IF ctx >= Len(vector) THEN Len(vector)
    ELSE IF tokenIsChar(vector[ctx + 1], ")") THEN ctx
    ELSE closing_paren(vector, ctx + 1)

\* The first token after the transform functions that start at ctx and the
\* whitespace that trails each of them.
RECURSIVE function_list_end(_, _)
function_list_end(vector, ctx) ==
    IF ctx < Len(vector) /\ vector[ctx + 1].type = "FUNCTION"
          /\ closing_paren(vector, ctx) < Len(vector)
    THEN function_list_end(vector,
            consumeWhitespace(vector, closing_paren(vector, ctx) + 1))
    ELSE ctx

\* css__parse_transform accepted a list of transform functions.
TransformListParsed ==
    /\ parse_pc = "done" /\ prop_name = "transform" /\ parse_err = "CSS_OK"
    /\ Len(emitted) >= 2
    /\ getValue(emitted[1]) = TRANSFORM.NONE + 1

\* C21: when css__parse_transform returns CSS_OK for a list of transform
\* functions, the cursor is at the first token after the last parsed function
\* and its trailing whitespace: no token outside the functions is consumed.
C21_CursorAfterFunctionList ==
    TransformListParsed => cursor = function_list_end(tokens, entry_ctx)

EntrySet(s) == {s[i] : i \in 1..Len(s)}

\* C22: a sort never changes the number or the set of entries, a context
\* of zero entries or one entry is left unchanged, and sorting a context that
\* was just sorted leaves the order as it is.
C22_SortIdempotentPermutation ==
    [][sorts' > sorts =>
        /\ Len(entries') = Len(entries)
        /\ EntrySet(entries') = EntrySet(entries)
        /\ (Len(entries) <= 1 => entries' = entries)
        /\ (sorted => entries' = entries)]_vars

\* A context sorted twice in a row whose first sort moved an entry past a tie.
C22_Witness ==
    /\ sorts = 2
    /\ Len(entries) >= 3
    /\ entries[1].box # 1
    /\ \E i, j \in 1..Len(entries) :
            i < j /\ entries[i].z_index = entries[j].z_index

AllInUse(slots) == \A i \in 1..Len(slots) : slots[i].in_use

\* C23: a download slot is in use exactly while its fetch is in flight: it is
\* marked only by a fetch that llcache_handle_retrieve accepted and it is
\* released, with family_name and handle cleared, when that fetch delivers
\* DONE or ERROR; so at most MAX_FONT_DOWNLOADS fetches are in flight, and a
\* fetch asked for while every slot is in use is refused with NSERROR_NOMEM
\* and leaves every slot as it was.
C23_SlotInUseWhileInFlight ==
    /\ \A i \in 1..MAX_FONT_DOWNLOADS :
            /\ font_downloads[i].in_use <=> i \in face_flight
            /\ ~font_downloads[i].in_use => font_downloads[i] = FreeSlot
            /\ font_downloads[i].in_use => font_downloads[i].handle = "handle"
    /\ Cardinality(face_flight) <= MAX_FONT_DOWNLOADS
    /\ (face_fetch.called /\ AllInUse(face_fetch.before)) =>
            /\ face_fetch.err = "NSERROR_NOMEM"
            /\ face_fetch.after = face_fetch.before

\* A fetch refused because every slot holds a fetch in flight.
C23_Witness ==
    /\ face_fetch.called
    /\ AllInUse(face_fetch.before)
    /\ face_fetch.err = "NSERROR_NOMEM"
    /\ Cardinality(face_flight) = MAX_FONT_DOWNLOADS

\* C24: there is never more than one download in flight for the same font
\* family: html_font_face_process for a family whose earlier fetch has not
\* delivered DONE or ERROR starts no new fetch.
C24_OneDownloadPerFamily ==
    \A i, j \in face_flight :
        (i # j) => font_downloads[i].family_name # font_downloads[j].family_name

\* C25: whenever get_cached_wide returns NSERROR_OK with a non-empty string,
\* the entry of the wide string it hands out is still in the wstr cache when
\* the call returns (seen at the return of win32_font_width, whose last cache
\* operation is that get_cached_wide call).
C25_WideStringStillCached ==
    (font_last.call = "width" /\ font_last.err = "NSERROR_OK"
        /\ Len(font_last.str) > 0)
    => \E e \in fonts.wstr_cache : e.str = font_last.str

\* What win32_font_split computes for a style, a string and a width when
\* nothing is cached and every measurement is of live memory.
split_uncached(fstyle, string, x) ==
    With(IF Len(string) = 0 \/ x < 1 THEN 0 ELSE text_fit(fstyle.face, x, Len(string)),
    LAMBDA pos :
        IF pos = Len(string)
        THEN [offset |-> pos, actual_x |-> text_extent(fstyle.face, pos)]
        ELSE [offset |-> split_point(string, pos),
              actual_x |-> text_extent(fstyle.face, split_point(string, pos))])

\* C26: a result served from the split cache equals the result the uncached
\* computation gives for the style, string and x of the call; so styles that
\* resolve to different faces never share a cached result, and nothing cached
\* before a successful html_font_face_load_data is served after it.
C26_CachedSplitEqualsComputed ==
    (font_last.call = "split" /\ font_last.hit) =>
        /\ font_last.offset
              = split_uncached(font_last.fstyle, font_last.str, font_last.x).offset
        /\ font_last.actual_x
              = split_uncached(font_last.fstyle, font_last.str, font_last.x).actual_x

\* The words the last cascade function call moved the cursor by.
CascadeConsumed == Len(cas_last.entry) - Len(style)

\* C27: the words a cascade function consumes do not depend on whether the
\* value outranks the existing one: for GRID_TEMPLATE_SET with n >= 1 tracks
\* css__cascade_grid_template_columns and css__cascade_grid_template_rows
\* move the cursor by 1 + 2n words, and css__cascade_transform and
\* css__cascade_object_position consume the whole of their declaration in
\* the outranking and in the non-outranking case alike.
C27_ConsumptionIndependentOfRank ==
    (cas_last.op # 0 /\ cas_err = "CSS_OK") =>
        /\ (/\ cas_last.op \in {CSS_PROP("grid_template_columns"),
                                CSS_PROP("grid_template_rows")}
            /\ ~hasFlagValue(cas_last.opv)
            /\ getValue(cas_last.opv) = GRID_TEMPLATE.SET)
           => CascadeConsumed = 1 + 2 * cas_last.entry[1]
        /\ cas_last.op \in {CSS_PROP("transform"), CSS_PROP("object_position")}
           => CascadeConsumed = Len(cas_last.entry)

\* The value tokens of the function whose name is at ctx: the numbers,
\* percentages and dimensions before its ")".
RECURSIVE function_arguments(_, _)
function_arguments(vector, ctx) ==
    IF ctx >= Len(vector) \/ tokenIsChar(vector[ctx + 1], ")") THEN <<>>
    ELSE (IF vector[ctx + 1].type \in {"NUMBER", "PERCENTAGE", "DIMENSION"}
          THEN <<vector[ctx + 1]>> ELSE <<>>)
         \o function_arguments(vector, ctx + 1)

\* The value an argument of a transform function denotes: a percentage of
\* a scale is a multiplier.
argument_value(func_type, token) ==
    IF func_type \in {TRANSFORM.SCALE, TRANSFORM.SCALEX, TRANSFORM.SCALEY}
          /\ token.type = "PERCENTAGE"
    THEN FDIV(token.num, F_100)
    ELSE token.num

\* The transform functions written in the tokens from ctx on, as CSS reads
\* them: scale(x) is scale(x, x), translate(x) is translate(x, 0), and a
\* function of one axis has no second value.
RECURSIVE written_functions(_, _)
written_functions(vector, ctx) ==
    IF ctx < Len(vector) /\ vector[ctx + 1].type = "FUNCTION"
          /\ closing_paren(vector, ctx) < Len(vector)
    THEN LET func_type == transform_function_named(vector[ctx + 1].data)[1]
             args == function_arguments(vector, ctx + 1)
             v1   == argument_value(func_type, args[1])
         IN  <<[type   |-> func_type,
                value1 |-> v1,
                value2 |-> IF Len(args) >= 2 THEN argument_value(func_type, args[2])
                           ELSE IF func_type = TRANSFORM.SCALE THEN v1
                           ELSE 0]>>
             \o written_functions(vector,
                    consumeWhitespace(vector, closing_paren(vector, ctx) + 1))
    ELSE <<>>

\* The types and values of decoded transform functions.
function_values(functions) ==
    [i \in 1..Len(functions) |->
        [type   |-> functions[i].type,
         value1 |-> functions[i].value1,
         value2 |-> functions[i].value2]]

\* css__cascade_transform applied to the style the parser emitted, on a
\* fresh selection state.
cascade_of_emitted ==
    css__cascade_transform(emitted[1], drop(emitted, 1), css_computed_style_create,
                           [p \in CascadeProps |-> 0], 1, TRUE, TRUE)

\* C28: for every transform function list that css__parse_transform
\* accepts, css__cascade_transform consumes exactly the words the parser
\* emitted after the opcode and decodes the same number of functions with the
\* same types and values in the same order; scale(x) decodes as scale(x, x)
\* and translate(x) as translate(x, 0).
C28_TransformRoundTrip ==
    TransformListParsed =>
        /\ cascade_of_emitted.err = "CSS_OK"
        /\ cascade_of_emitted.style = <<>>
        /\ cascade_of_emitted.computed["transform"].n_functions
              = Len(written_functions(tokens, entry_ctx))
        /\ function_values(cascade_of_emitted.computed["transform"].functions)
              = written_functions(tokens, entry_ctx)

\* A translate(x) followed by a scale(x) went through the parser and the
\* cascade.
C28_Witness ==
    /\ TransformListParsed
    /\ Len(written_functions(tokens, entry_ctx)) = 2
    /\ written_functions(tokens, entry_ctx)[1].type = TRANSFORM.TRANSLATE
    /\ written_functions(tokens, entry_ctx)[2].type = TRANSFORM.SCALE
    /\ written_functions(tokens, entry_ctx)[2].value2 = INTTOFIX(2)
    /\ Len(function_arguments(tokens, entry_ctx + 1)) = 1
    /\ cascade_of_emitted.style = <<>>

\* The css_unit a unit stored as the bytecode word reads as: 0 alone is a
\* css_unit with the meaning the word had (UNIT_PX and CSS_UNIT_PX are both 0).
word_as_css_unit(u) ==
    IF u = UNIT.PX THEN "CSS_UNIT_PX" ELSE "UNIT_BYTECODE"

\* A track array of the rows cascade as the layout reads it.
track_array(tracks) ==
    [i \in 1..Len(tracks) |->
        [value |-> tracks[i].value, unit |-> word_as_css_unit(tracks[i].unit)]]

\* The last declaration cascaded was a track list of rows or of columns.
TrackListCascaded ==
    /\ cas_last.op \in {CSS_PROP("grid_template_columns"),
                        CSS_PROP("grid_template_rows")}
    /\ ~hasFlagValue(cas_last.opv)
    /\ getValue(cas_last.opv) = GRID_TEMPLATE.SET
    /\ cas_last.entry[1] > 0

\* The track array each cascade function stores for the bytecode of the last
\* declaration, on a fresh selection state.
rows_of_last ==
    (IF rows_build = "tracks"
     THEN css__cascade_grid_template_rows(
            cas_last.opv, cas_last.entry, css_computed_style_create,
            [p \in CascadeProps |-> 0], 1, TRUE)
     ELSE css__cascade_grid_template_rows_todo(
            cas_last.opv, cas_last.entry, css_computed_style_create,
            [p \in CascadeProps |-> 0], 1)).computed["grid_template_rows"].tracks

columns_of_last ==
    css__cascade_grid_template_columns(
        cas_last.opv, cas_last.entry, css_computed_style_create,
        [p \in CascadeProps |-> 0], 1, TRUE).computed["grid_template_columns"].tracks

\* C29: given the same track-list bytecode, css__cascade_grid_template_rows
\* and css__cascade_grid_template_columns produce identical track arrays: the
\* same n values, the same units in the computed-style unit encoding, and a
\* terminating entry (0, 0) at index n.
C29_RowsAndColumnsSameTracks ==
    TrackListCascaded =>
        /\ Len(rows_of_last) = cas_last.entry[1] + 1
        /\ track_array(rows_of_last) = columns_of_last
        /\ track_array(rows_of_last)[cas_last.entry[1] + 1]
              = [value |-> 0, unit |-> "CSS_UNIT_PX"]

\* C30: css__parse_transform, css__parse_grid_template_rows and
\* css__parse_place_content leave the cursor equal to its value on entry on
\* every return other than CSS_OK, including the errors that are not
\* CSS_INVALID, such as CSS_NOMEM from appending a keyword or flag value or
\* from creating the temporary justify-content style.
C30_CursorRestoredOnEveryError ==
    (/\ parse_pc = "done"
     /\ prop_name \in {"transform", "grid_template_rows", "place_content"}
     /\ parse_err # "CSS_OK")
        => cursor = entry_ctx

====
